---- MODULE Spec2Model ----
(***************************************************************************)
(* House project manager: projects, activities, exchange-rate history and  *)
(* the budget analysis computed over them.                                 *)
(*                                                                         *)
(* Numbers.  A JavaScript number is modelled as an exact fraction <<n, d>> *)
(* with d > 0, extended with the three IEEE-754 values a division by zero  *)
(* produces: <<1, 0>> (+Infinity), <<-1, 0>> (-Infinity), <<0, 0>> (NaN).  *)
(* Rounding of the binary mantissa is not modelled.  A numeric(p, s)       *)
(* column is modelled as the integer count of 10^-s units it stores.       *)
(* A nullable value is a sequence of length 0 (null) or 1.                 *)
(***************************************************************************)
EXTENDS Integers, Sequences, FiniteSets, TLC

(* ------------------------------ bounds -------------------------------- *)

\* number of project rows the store may hold
MaxProjects == 1
\* number of activity rows the store may hold
MaxActivities == 1
\* number of concurrent updateExchangeRate requests
MaxReqs == 2
\* number of timestamps the clock may hand out
MaxTime == 3
\* length of the activity list of the calculator specification
MaxCalcActs == 2

\* rows stored before the edits of the update specification start
EditRows == 2

\* update calls that specification lets write
MaxEdits == 1

\* projects of the store the read specification starts from
ReadProjects == 2

\* activity rows, and history rows, of that store
ReadRows == 2

(* --------------------------- number model ----------------------------- *)

Abs(x) == IF x < 0 THEN -x ELSE x

Sign(x) == IF x > 0 THEN 1 ELSE IF x < 0 THEN -1 ELSE 0

RECURSIVE GCD(_, _)
GCD(a, b) == IF b = 0 THEN a ELSE GCD(b, a % b)

RECURSIVE Pow10(_)
Pow10(s) == IF s = 0 THEN 1 ELSE 10 * Pow10(s - 1)

\* the canonical form of the number n / d
Norm(n, d) ==
  IF d = 0 THEN <<Sign(n), 0>>
  ELSE LET g == GCD(Abs(n), Abs(d))
       IN  IF d < 0 THEN <<(-n) \div g, (-d) \div g>> ELSE <<n \div g, d \div g>>

Num(k) == <<k, 1>>
NaN == <<0, 0>>
PosInf == <<1, 0>>
NegInf == <<-1, 0>>

IsNaN(a) == a = NaN
IsFinite(a) == a[2] # 0

RNeg(a) == <<-a[1], a[2]>>

\* a + b
RAdd(a, b) ==
  IF IsNaN(a) \/ IsNaN(b) THEN NaN
  ELSE IF ~IsFinite(a) /\ ~IsFinite(b) THEN (IF a = b THEN a ELSE NaN)
  ELSE IF ~IsFinite(a) THEN a
  ELSE IF ~IsFinite(b) THEN b
  ELSE Norm(a[1] * b[2] + b[1] * a[2], a[2] * b[2])

\* a - b
RSub(a, b) == RAdd(a, RNeg(b))

\* a * b
RMul(a, b) == Norm(a[1] * b[1], a[2] * b[2])

\* a / b
RDiv(a, b) ==
  IF b[1] < 0 THEN Norm((-a[1]) * b[2], a[2] * (-b[1]))
  ELSE Norm(a[1] * b[2], a[2] * b[1])

\* a < b; every comparison with NaN is false
RLt(a, b) ==
  IF IsNaN(a) \/ IsNaN(b) THEN FALSE
  ELSE IF a = b THEN FALSE
  ELSE IF a = NegInf \/ b = PosInf THEN TRUE
  ELSE IF a = PosInf \/ b = NegInf THEN FALSE
  ELSE a[1] * b[2] < b[1] * a[2]

\* a > b
RGt(a, b) == RLt(b, a)

\* a <= b
RLe(a, b) == ~IsNaN(a) /\ ~IsNaN(b) /\ ~RLt(b, a)

\* Math.max(a, b): NaN if either argument is NaN
MathMax(a, b) ==
  IF IsNaN(a) \/ IsNaN(b) THEN NaN
  ELSE IF RLt(a, b) THEN b ELSE a

(* ------------------------ numeric conversions ------------------------- *)

\* number.toString() followed by the cast of the text to numeric(p, s):
\* the count of 10^-s units nearest to q, ties away from zero
ToNumeric(q, s) ==
  LET n == Abs(q[1]) * Pow10(s)
      r == (2 * n + q[2]) \div (2 * q[2])
  IN  IF q[1] < 0 THEN -r ELSE r

\* number of decimal digits of n >= 0 (0 has none)
RECURSIVE Digits(_)
Digits(n) == IF n = 0 THEN 0 ELSE 1 + Digits(n \div 10)

\* the cast fails with "numeric field overflow" when the rounded value
\* needs more than p digits
NumericOverflow(q, p, s) == Digits(Abs(ToNumeric(q, s))) > p

\* parseFloat of the text of a numeric(p, s) column
ParseFloat(v, s) == Norm(v, Pow10(s))

(* ------------------------------ values -------------------------------- *)

None == <<>>
Some(v) == <<v>>

\* activityStatusEnum
Statuses == {"planned", "in_progress", "completed", "cancelled"}

\* total_budget_usd inputs: 0.004 (stored as 0.00), 1 and -1 (not positive)
BudgetInputs == {<<1, 250>>, <<1, 1>>, <<-1, 1>>}

\* total_budget_usd inputs of createProject: 1 and -1 (not positive)
CreateBudgetInputs == {<<1, 1>>, <<-1, 1>>}

\* exchange rate inputs: 0.00004 (stored as 0.0000), 1, 2, 10000 (overflows
\* numeric(8, 4)) and 0 (not positive)
RateInputs == {<<1, 25000>>, <<1, 1>>, <<2, 1>>, <<10000, 1>>, <<0, 1>>}

\* planned_budget_usd inputs: 0.004 (stored as 0.00), 1 and 0 (not positive)
PlannedInputs == {<<1, 250>>, <<1, 1>>, <<0, 1>>}

\* actual_cost_crc inputs: -1, 0, 1
CostInputs == {<<-1, 1>>, <<0, 1>>, <<1, 1>>}

\* z.number().positive()
Positive(q) == q[1] > 0

(* ------------------------------- state -------------------------------- *)

VARIABLES
  projects,    \* projectsTable: the row with serial id i is projects[i]
  activities,  \* activitiesTable: the row with serial id i is activities[i]
  history,     \* exchangeRateHistoryTable, in insertion order
  now,         \* the clock behind new Date() and defaultNow()
  reqs,        \* the updateExchangeRate calls in flight
  resp,        \* outcome of the handler call that returned last
  analysis,    \* BudgetAnalysis returned by the last getBudgetAnalysis
  app,         \* state of the client's App component
  result       \* value returned by the last read other than the analysis

vars ==
  <<projects, activities, history, now, reqs, resp, analysis, app, result>>

\* useState of App before anything is loaded
NoApp == [projects |-> <<>>, selectedProject |-> <<>>, activities |-> <<>>,
          budgetAnalysis |-> <<>>]

\* ids a caller may name; the last one never references a row
ProjectIds == 1..(MaxProjects + 1)
ActivityIds == 1..(MaxActivities + 1)
ReqIds == 1..MaxReqs

\* db.select().from(projectsTable).where(eq(projectsTable.id, id))
ProjectExists(id) == id \in 1..Len(projects)

\* the select without its where clause: the rows of every project
SelectAll(rows, id) == rows

\* db.select().from(activitiesTable).where(eq(activitiesTable.project_id, id))
RECURSIVE SelectByProject(_, _)
SelectByProject(rows, id) ==
  IF rows = <<>> THEN <<>>
  ELSE IF Head(rows).project_id = id
       THEN <<Head(rows)>> \o SelectByProject(Tail(rows), id)
       ELSE SelectByProject(Tail(rows), id)

Response(op, outcome) == [op |-> op, outcome |-> outcome]

(* ------------------------- getBudgetAnalysis -------------------------- *)

\* the loop with the planned budget of a cancelled activity left out
RECURSIVE Totals_SkipCancelled(_, _, _)
Totals_SkipCancelled(acts, currentExchangeRate, acc) ==
  IF acts = <<>> THEN acc
  ELSE LET activity == Head(acts)
           next == [
             totalPlannedBudgetUsd |->
               IF activity.status = "cancelled"
               THEN acc.totalPlannedBudgetUsd
               ELSE RAdd(acc.totalPlannedBudgetUsd,
                         ParseFloat(activity.planned_budget_usd, 2)),
             completedActivitiesCount |->
               IF activity.status = "completed"
               THEN acc.completedActivitiesCount + 1
               ELSE acc.completedActivitiesCount,
             totalActualCostUsd |->
               IF activity.actual_cost_crc # None
               THEN RAdd(acc.totalActualCostUsd,
                         RDiv(ParseFloat(activity.actual_cost_crc[1], 2),
                              currentExchangeRate))
               ELSE acc.totalActualCostUsd ]
       IN  Totals_SkipCancelled(Tail(acts), currentExchangeRate, next)

\* the loop with every closed activity (completed or cancelled) counted
RECURSIVE Totals_CountClosed(_, _, _)
Totals_CountClosed(acts, currentExchangeRate, acc) ==
  IF acts = <<>> THEN acc
  ELSE LET activity == Head(acts)
           next == [
             totalPlannedBudgetUsd |->
               RAdd(acc.totalPlannedBudgetUsd,
                    ParseFloat(activity.planned_budget_usd, 2)),
             completedActivitiesCount |->
               IF activity.status \in {"completed", "cancelled"}
               THEN acc.completedActivitiesCount + 1
               ELSE acc.completedActivitiesCount,
             totalActualCostUsd |->
               IF activity.actual_cost_crc # None
               THEN RAdd(acc.totalActualCostUsd,
                         RDiv(ParseFloat(activity.actual_cost_crc[1], 2),
                              currentExchangeRate))
               ELSE acc.totalActualCostUsd ]
       IN  Totals_CountClosed(Tail(acts), currentExchangeRate, next)

\* the loop with the CRC amount added as if it were USD
RECURSIVE Totals_NoConversion(_, _, _)
Totals_NoConversion(acts, currentExchangeRate, acc) ==
  IF acts = <<>> THEN acc
  ELSE LET activity == Head(acts)
           next == [
             totalPlannedBudgetUsd |->
               RAdd(acc.totalPlannedBudgetUsd,
                    ParseFloat(activity.planned_budget_usd, 2)),
             completedActivitiesCount |->
               IF activity.status = "completed"
               THEN acc.completedActivitiesCount + 1
               ELSE acc.completedActivitiesCount,
             totalActualCostUsd |->
               IF activity.actual_cost_crc # None
               THEN RAdd(acc.totalActualCostUsd,
                         ParseFloat(activity.actual_cost_crc[1], 2))
               ELSE acc.totalActualCostUsd ]
       IN  Totals_NoConversion(Tail(acts), currentExchangeRate, next)

\* the for loop over the activities: planned sum, completed count and
\* actual cost converted at the project's current rate
RECURSIVE Totals(_, _, _)
Totals(acts, currentExchangeRate, acc) ==
  IF acts = <<>> THEN acc
  ELSE LET activity == Head(acts)
           next == [
             totalPlannedBudgetUsd |->
               RAdd(acc.totalPlannedBudgetUsd,
                    ParseFloat(activity.planned_budget_usd, 2)),
             completedActivitiesCount |->
               IF activity.status = "completed"
               THEN acc.completedActivitiesCount + 1
               ELSE acc.completedActivitiesCount,
             totalActualCostUsd |->
               IF activity.actual_cost_crc # None
               THEN RAdd(acc.totalActualCostUsd,
                         RDiv(ParseFloat(activity.actual_cost_crc[1], 2),
                              currentExchangeRate))
               ELSE acc.totalActualCostUsd ]
       IN  Totals(Tail(acts), currentExchangeRate, next)

\* budgetUtilizationPercentage, guarded against a zero budget
BudgetUtilizationPercentage(totalActualCostUsd, totalBudgetUsd) ==
  IF RGt(totalBudgetUsd, Num(0))
  THEN RMul(RDiv(totalActualCostUsd, totalBudgetUsd), Num(100))
  ELSE Num(0)

\* the completion ratio without the guard for an empty activity list
ProjectCompletionPercentage_NoGuard(completedActivitiesCount, totalActivitiesCount) ==
  RMul(RDiv(Num(completedActivitiesCount), Num(totalActivitiesCount)),
       Num(100))

\* projectCompletionPercentage, guarded against an empty activity list
ProjectCompletionPercentage(completedActivitiesCount, totalActivitiesCount) ==
  IF totalActivitiesCount > 0
  THEN RMul(RDiv(Num(completedActivitiesCount), Num(totalActivitiesCount)),
            Num(100))
  ELSE Num(0)

\* the projection that takes the planned total whenever there is one
ProjectedTotalCostUsd_PlannedFirst(actualUsd, plannedUsd, completionPct) ==
  IF RGt(plannedUsd, Num(0)) THEN plannedUsd
  ELSE IF RGt(completionPct, Num(0)) /\ RGt(actualUsd, Num(0))
  THEN RMul(RDiv(actualUsd, completionPct), Num(100))
  ELSE actualUsd

\* the projection with 0 where the code keeps its initial value
ProjectedTotalCostUsd_ElseZero(actualUsd, plannedUsd, completionPct) ==
  IF RGt(completionPct, Num(0)) /\ RGt(actualUsd, Num(0))
  THEN RMul(RDiv(actualUsd, completionPct), Num(100))
  ELSE IF RGt(plannedUsd, Num(0)) THEN plannedUsd ELSE Num(0)

\* projectedTotalCostUsd: starts as totalActualCostUsd, replaced by the
\* extrapolation or else by the planned budget
ProjectedTotalCostUsd(actualUsd, plannedUsd, completionPct) ==
  IF RGt(completionPct, Num(0)) /\ RGt(actualUsd, Num(0))
  THEN RMul(RDiv(actualUsd, completionPct), Num(100))
  ELSE IF RGt(plannedUsd, Num(0)) THEN plannedUsd ELSE actualUsd

\* the overrun without the floor at 0
ProjectedOverBudgetUsd_NoClamp(projectedTotalCostUsd, totalBudgetUsd) ==
  RSub(projectedTotalCostUsd, totalBudgetUsd)

\* projectedOverBudgetUsd
ProjectedOverBudgetUsd(projectedTotalCostUsd, totalBudgetUsd) ==
  MathMax(Num(0), RSub(projectedTotalCostUsd, totalBudgetUsd))

\* the risk flag without the utilization/completion imbalance
IsOverBudgetRisk_OverOnly(overUsd, utilizationPct, completionPct) ==
  RGt(overUsd, Num(0))

\* isOverBudgetRisk
IsOverBudgetRisk(overUsd, utilizationPct, completionPct) ==
  \/ RGt(overUsd, Num(0))
  \/ RGt(utilizationPct, Num(80)) /\ RLt(completionPct, Num(80))

\* the snapshot computed from one project row and its activity rows
BudgetAnalysis(projectId, project, acts) ==
  LET totalBudgetUsd == ParseFloat(project.total_budget_usd, 2)
      currentExchangeRate == ParseFloat(project.current_exchange_rate, 4)
      totalActivitiesCount == Len(acts)
      t == Totals(acts, currentExchangeRate,
                  [totalPlannedBudgetUsd |-> Num(0),
                   totalActualCostUsd |-> Num(0),
                   completedActivitiesCount |-> 0])
      remainingBudgetUsd == RSub(totalBudgetUsd, t.totalActualCostUsd)
      budgetUtilizationPercentage ==
        BudgetUtilizationPercentage(t.totalActualCostUsd, totalBudgetUsd)
      projectCompletionPercentage ==
        ProjectCompletionPercentage(t.completedActivitiesCount,
                                    totalActivitiesCount)
      projectedTotalCostUsd ==
        ProjectedTotalCostUsd(t.totalActualCostUsd, t.totalPlannedBudgetUsd,
                              projectCompletionPercentage)
      projectedOverBudgetUsd ==
        ProjectedOverBudgetUsd(projectedTotalCostUsd, totalBudgetUsd)
  IN  [project_id |-> projectId,
       total_budget_usd |-> totalBudgetUsd,
       total_planned_budget_usd |-> t.totalPlannedBudgetUsd,
       total_actual_cost_usd |-> t.totalActualCostUsd,
       remaining_budget_usd |-> remainingBudgetUsd,
       budget_utilization_percentage |-> budgetUtilizationPercentage,
       projected_total_cost_usd |-> projectedTotalCostUsd,
       projected_over_budget_usd |-> projectedOverBudgetUsd,
       is_over_budget_risk |->
         IsOverBudgetRisk(projectedOverBudgetUsd, budgetUtilizationPercentage,
                          projectCompletionPercentage),
       completed_activities_count |-> t.completedActivitiesCount,
       total_activities_count |-> totalActivitiesCount,
       project_completion_percentage |-> projectCompletionPercentage]

\* getBudgetAnalysis(projectId): read-only, throws when the project is missing
\* the handler without the lookup guard, aggregating over an empty row
GetBudgetAnalysis_NoCheck(projectId) ==
  /\ resp' = Response("getBudgetAnalysis", "ok")
  /\ analysis' = Some(BudgetAnalysis(projectId,
                        IF ProjectExists(projectId) THEN projects[projectId]
                        ELSE [total_budget_usd |-> 0,
                              current_exchange_rate |-> 0],
                        SelectByProject(activities, projectId)))
  /\ UNCHANGED <<projects, activities, history, now, reqs, app, result>>

GetBudgetAnalysis(projectId) ==
  /\ IF ~ProjectExists(projectId)
     THEN /\ resp' = Response("getBudgetAnalysis", "NotFound")
          /\ analysis' = None
     ELSE /\ resp' = Response("getBudgetAnalysis", "ok")
          /\ analysis' = Some(BudgetAnalysis(projectId, projects[projectId],
                                SelectByProject(activities, projectId)))
  /\ UNCHANGED <<projects, activities, history, now, reqs, app, result>>

(* ------------------- calculator specification ------------------------- *)

\* values a numeric column can hold after an accepted input was stored
StoredBudgets == {ToNumeric(q, 2) : q \in {b \in BudgetInputs : Positive(b)}}
StoredRates ==
  {ToNumeric(q, 4) : q \in {r \in RateInputs :
                              Positive(r) /\ ~NumericOverflow(r, 8, 4)}}
StoredPlanned == {ToNumeric(q, 2) : q \in {b \in PlannedInputs : Positive(b)}}
StoredCosts == {None} \cup {Some(ToNumeric(q, 2)) : q \in CostInputs}

\* a row of projectsTable as createProject inserts it
ProjectRow(id, budget, rate, t) ==
  [id |-> id, name |-> "house", description |-> None,
   total_budget_usd |-> budget, current_exchange_rate |-> rate,
   start_date |-> 0, end_date |-> 0, created_at |-> t, updated_at |-> t]

\* the inserted row with the activity already started
ActivityRow_Started(id, projectId, planned, t) ==
  [id |-> id, project_id |-> projectId,
   name |-> "walls", description |-> None,
   estimated_start_date |-> 0, estimated_end_date |-> 0,
   actual_start_date |-> Some(0), actual_end_date |-> None,
   contractor |-> None,
   planned_budget_usd |-> planned, actual_cost_crc |-> None,
   status |-> "in_progress", created_at |-> t, updated_at |-> t]

\* a row of activitiesTable as createActivity inserts it: status planned,
\* the actual dates and the actual cost left to their null defaults
ActivityRow(id, projectId, planned, t) ==
  [id |-> id, project_id |-> projectId,
   name |-> "walls", description |-> None,
   estimated_start_date |-> 0, estimated_end_date |-> 0,
   actual_start_date |-> None, actual_end_date |-> None,
   contractor |-> None,
   planned_budget_usd |-> planned, actual_cost_crc |-> None,
   status |-> "planned", created_at |-> t, updated_at |-> t]

IdleReq == [pc |-> "idle", project_id |-> 0, usd_to_crc_rate |-> Num(0)]

NoResponse == Response("none", "none")

\* one stored project and every list of up to MaxCalcActs stored activities
CalcInit ==
  /\ \E budget \in StoredBudgets, rate \in StoredRates :
       projects = <<ProjectRow(1, budget, rate, 0)>>
  /\ \E n \in 0..MaxCalcActs :
       \E planned \in [1..n -> StoredPlanned], cost \in [1..n -> StoredCosts],
          status \in [1..n -> Statuses] :
         activities =
           [i \in 1..n |->
              [ActivityRow(i, 1, planned[i], 0)
                 EXCEPT !.actual_cost_crc = cost[i], !.status = status[i]]]
  /\ history = <<>>
  /\ now = 1
  /\ reqs = [r \in ReqIds |-> IdleReq]
  /\ resp = NoResponse
  /\ analysis = None
  /\ app = NoApp
  /\ result = None

CalcNext == \E projectId \in ProjectIds : GetBudgetAnalysis(projectId)

CalcSpec == CalcInit /\ [][CalcNext]_vars

(* ---------------------------- API inputs ------------------------------ *)

\* an optional input field: <<>> is undefined, <<v>> carries v
Undefined == <<>>
Opt(S) == {Undefined} \cup {<<v>> : v \in S}

\* Date.toISOString().split('T')[0]: the day a timestamp falls on, which
\* is what a date column stores
TicksPerDay == 2
IsoDate(t) == t \div TicksPerDay

\* updateProjectInputSchema without id, every field left out
NoProjectChange ==
  [name |-> Undefined, description |-> Undefined,
   total_budget_usd |-> Undefined, current_exchange_rate |-> Undefined,
   start_date |-> Undefined, end_date |-> Undefined]

\* updateActivityInputSchema without id, every field left out
NoActivityChange ==
  [name |-> Undefined, description |-> Undefined,
   estimated_start_date |-> Undefined, estimated_end_date |-> Undefined,
   actual_start_date |-> Undefined, actual_end_date |-> Undefined,
   contractor |-> Undefined, planned_budget_usd |-> Undefined,
   actual_cost_crc |-> Undefined, status |-> Undefined]

\* updateProjectInputSchema without id: nothing, a budget, a rate, or both
UpdateProjectInputs ==
  LET NoChange == NoProjectChange
  IN  {NoChange}
        \cup {[NoChange EXCEPT !.total_budget_usd = <<q>>] : q \in BudgetInputs}
        \cup {[NoChange EXCEPT !.current_exchange_rate = <<q>>] :
                q \in RateInputs}
        \cup {[NoChange EXCEPT !.total_budget_usd = <<Num(1)>>,
                               !.current_exchange_rate = <<Num(2)>>]}

\* updateActivityInputSchema without id: a status change, a cost change
\* (null clears it), a planned budget change, or a cost with a status
UpdateActivityInputs ==
  LET NoChange == NoActivityChange
  IN  {[NoChange EXCEPT !.status = <<st>>] : st \in Statuses}
        \cup {[NoChange EXCEPT !.actual_cost_crc = <<c>>] :
                c \in {None} \cup {Some(q) : q \in CostInputs}}
        \cup {[NoChange EXCEPT !.planned_budget_usd = <<q>>] :
                q \in PlannedInputs}
        \cup {[NoChange EXCEPT !.actual_cost_crc = <<Some(Num(1))>>,
                               !.status = <<"completed">>]}

\* the schema check of an optional positive number
OptPositive(f) == f = Undefined \/ Positive(f[1])

\* the cast of an optional number overflows
OptOverflow(f, p, s) == f # Undefined /\ NumericOverflow(f[1], p, s)

\* no handler holds a timestamp beyond the clock's range
ClockRuns == now <= MaxTime

(* ------------------------- project handlers --------------------------- *)

\* createProject behind createProjectInputSchema: one insert
CreateProject(budget, rate) ==
  /\ IF ~Positive(budget) \/ ~Positive(rate)
     THEN /\ resp' = Response("createProject", "Validation")
          /\ UNCHANGED <<projects, now>>
     ELSE IF NumericOverflow(budget, 12, 2) \/ NumericOverflow(rate, 8, 4)
     THEN /\ resp' = Response("createProject", "DbError")
          /\ UNCHANGED <<projects, now>>
     ELSE /\ Len(projects) < MaxProjects
          /\ ClockRuns
          /\ projects' = Append(projects,
               ProjectRow(Len(projects) + 1, ToNumeric(budget, 2),
                          ToNumeric(rate, 4), now))
          /\ now' = now + 1
          /\ resp' = Response("createProject", "ok")
  /\ analysis' = None
  /\ UNCHANGED <<activities, history, reqs, app, result>>

\* updateProject inserting a row when the id matches none
UpdateProject_Upsert(id, input) ==
  /\ IF ~OptPositive(input.total_budget_usd)
          \/ ~OptPositive(input.current_exchange_rate)
     THEN /\ resp' = Response("updateProject", "Validation")
          /\ UNCHANGED <<projects, now>>
     ELSE IF OptOverflow(input.total_budget_usd, 12, 2)
               \/ OptOverflow(input.current_exchange_rate, 8, 4)
     THEN /\ resp' = Response("updateProject", "DbError")
          /\ UNCHANGED <<projects, now>>
     ELSE IF ~ProjectExists(id)
     THEN /\ resp' = Response("updateProject", "NotFound")
          /\ projects' = Append(projects,
               ProjectRow(Len(projects) + 1, ToNumeric(Num(1), 2),
                          ToNumeric(Num(1), 4), now))
          /\ UNCHANGED now
     ELSE /\ ClockRuns
          /\ projects' = [projects EXCEPT ![id] =
               [@ EXCEPT
                  !.name =
                     IF input.name # Undefined THEN input.name[1] ELSE @,
                  !.description =
                     IF input.description # Undefined
                     THEN input.description[1] ELSE @,
                  !.total_budget_usd =
                     IF input.total_budget_usd # Undefined
                     THEN ToNumeric(input.total_budget_usd[1], 2) ELSE @,
                  !.current_exchange_rate =
                     IF input.current_exchange_rate # Undefined
                     THEN ToNumeric(input.current_exchange_rate[1], 4) ELSE @,
                  !.start_date =
                     IF input.start_date # Undefined
                     THEN IsoDate(input.start_date[1]) ELSE @,
                  !.end_date =
                     IF input.end_date # Undefined
                     THEN IsoDate(input.end_date[1]) ELSE @,
                  !.updated_at = now]]
          /\ now' = now + 1
          /\ resp' = Response("updateProject", "ok")
  /\ analysis' = None
  /\ UNCHANGED <<activities, history, reqs, app, result>>

\* updateProject behind updateProjectInputSchema: one update by id that
\* sets the provided fields and updated_at; no row updated is Not-Found
UpdateProject(id, input) ==
  /\ IF ~OptPositive(input.total_budget_usd)
          \/ ~OptPositive(input.current_exchange_rate)
     THEN /\ resp' = Response("updateProject", "Validation")
          /\ UNCHANGED <<projects, now>>
     ELSE IF OptOverflow(input.total_budget_usd, 12, 2)
               \/ OptOverflow(input.current_exchange_rate, 8, 4)
     THEN /\ resp' = Response("updateProject", "DbError")
          /\ UNCHANGED <<projects, now>>
     ELSE IF ~ProjectExists(id)
     THEN /\ resp' = Response("updateProject", "NotFound")
          /\ UNCHANGED <<projects, now>>
     ELSE /\ ClockRuns
          /\ projects' = [projects EXCEPT ![id] =
               [@ EXCEPT
                  !.name =
                     IF input.name # Undefined THEN input.name[1] ELSE @,
                  !.description =
                     IF input.description # Undefined
                     THEN input.description[1] ELSE @,
                  !.total_budget_usd =
                     IF input.total_budget_usd # Undefined
                     THEN ToNumeric(input.total_budget_usd[1], 2) ELSE @,
                  !.current_exchange_rate =
                     IF input.current_exchange_rate # Undefined
                     THEN ToNumeric(input.current_exchange_rate[1], 4) ELSE @,
                  !.start_date =
                     IF input.start_date # Undefined
                     THEN IsoDate(input.start_date[1]) ELSE @,
                  !.end_date =
                     IF input.end_date # Undefined
                     THEN IsoDate(input.end_date[1]) ELSE @,
                  !.updated_at = now]]
          /\ now' = now + 1
          /\ resp' = Response("updateProject", "ok")
  /\ analysis' = None
  /\ UNCHANGED <<activities, history, reqs, app, result>>

(* ------------------------- activity handlers -------------------------- *)

ActivityExists(id) == id \in 1..Len(activities)

\* createActivity behind createActivityInputSchema: the project must exist,
\* then one insert with status planned
\* createActivity without the lookup of the project
CreateActivity_NoCheck(projectId, planned) ==
  /\ IF ~Positive(planned)
     THEN /\ resp' = Response("createActivity", "Validation")
          /\ UNCHANGED <<activities, now>>
     ELSE IF NumericOverflow(planned, 10, 2)
     THEN /\ resp' = Response("createActivity", "DbError")
          /\ UNCHANGED <<activities, now>>
     ELSE /\ Len(activities) < MaxActivities
          /\ ClockRuns
          /\ activities' = Append(activities,
               ActivityRow(Len(activities) + 1, projectId,
                           ToNumeric(planned, 2), now))
          /\ now' = now + 1
          /\ resp' = Response("createActivity", "ok")
  /\ analysis' = None
  /\ UNCHANGED <<projects, history, reqs, app, result>>

CreateActivity(projectId, planned) ==
  /\ IF ~Positive(planned)
     THEN /\ resp' = Response("createActivity", "Validation")
          /\ UNCHANGED <<activities, now>>
     ELSE IF ~ProjectExists(projectId)
     THEN /\ resp' = Response("createActivity", "NotFound")
          /\ UNCHANGED <<activities, now>>
     ELSE IF NumericOverflow(planned, 10, 2)
     THEN /\ resp' = Response("createActivity", "DbError")
          /\ UNCHANGED <<activities, now>>
     ELSE /\ Len(activities) < MaxActivities
          /\ ClockRuns
          /\ activities' = Append(activities,
               ActivityRow(Len(activities) + 1, projectId,
                           ToNumeric(planned, 2), now))
          /\ now' = now + 1
          /\ resp' = Response("createActivity", "ok")
  /\ analysis' = None
  /\ UNCHANGED <<projects, history, reqs, app, result>>

\* updateActivity behind updateActivityInputSchema: one update by id that
\* sets the provided fields and updated_at; no row updated is Not-Found
\* updateActivity with the cost assigned without the test for undefined
UpdateActivity_CostUnguarded(id, input) ==
  /\ IF ~OptPositive(input.planned_budget_usd)
     THEN /\ resp' = Response("updateActivity", "Validation")
          /\ UNCHANGED <<activities, now>>
     ELSE IF \/ OptOverflow(input.planned_budget_usd, 10, 2)
             \/ /\ input.actual_cost_crc # Undefined
                /\ OptOverflow(input.actual_cost_crc[1], 12, 2)
     THEN /\ resp' = Response("updateActivity", "DbError")
          /\ UNCHANGED <<activities, now>>
     ELSE IF ~ActivityExists(id)
     THEN /\ resp' = Response("updateActivity", "NotFound")
          /\ UNCHANGED <<activities, now>>
     ELSE /\ ClockRuns
          /\ activities' = [activities EXCEPT ![id] =
               [@ EXCEPT
                  !.name =
                     IF input.name # Undefined THEN input.name[1] ELSE @,
                  !.description =
                     IF input.description # Undefined
                     THEN input.description[1] ELSE @,
                  !.estimated_start_date =
                     IF input.estimated_start_date # Undefined
                     THEN IsoDate(input.estimated_start_date[1]) ELSE @,
                  !.estimated_end_date =
                     IF input.estimated_end_date # Undefined
                     THEN IsoDate(input.estimated_end_date[1]) ELSE @,
                  !.actual_start_date =
                     IF input.actual_start_date = Undefined THEN @
                     ELSE IF input.actual_start_date[1] = None THEN None
                     ELSE Some(IsoDate(input.actual_start_date[1][1])),
                  !.actual_end_date =
                     IF input.actual_end_date = Undefined THEN @
                     ELSE IF input.actual_end_date[1] = None THEN None
                     ELSE Some(IsoDate(input.actual_end_date[1][1])),
                  !.contractor =
                     IF input.contractor # Undefined
                     THEN input.contractor[1] ELSE @,
                  !.planned_budget_usd =
                     IF input.planned_budget_usd # Undefined
                     THEN ToNumeric(input.planned_budget_usd[1], 2) ELSE @,
                  !.actual_cost_crc =
                     IF input.actual_cost_crc = Undefined THEN None
                     ELSE IF input.actual_cost_crc[1] = None THEN None
                     ELSE Some(ToNumeric(input.actual_cost_crc[1][1], 2)),
                  !.status =
                     IF input.status # Undefined THEN input.status[1] ELSE @,
                  !.updated_at = now]]
          /\ now' = now + 1
          /\ resp' = Response("updateActivity", "ok")
  /\ analysis' = None
  /\ UNCHANGED <<projects, history, reqs, app, result>>

\* updateActivity with completed and cancelled as terminal statuses
UpdateActivity_Terminal(id, input) ==
  /\ IF ~OptPositive(input.planned_budget_usd)
     THEN /\ resp' = Response("updateActivity", "Validation")
          /\ UNCHANGED <<activities, now>>
     ELSE IF \/ OptOverflow(input.planned_budget_usd, 10, 2)
             \/ /\ input.actual_cost_crc # Undefined
                /\ OptOverflow(input.actual_cost_crc[1], 12, 2)
     THEN /\ resp' = Response("updateActivity", "DbError")
          /\ UNCHANGED <<activities, now>>
     ELSE IF ~ActivityExists(id)
     THEN /\ resp' = Response("updateActivity", "NotFound")
          /\ UNCHANGED <<activities, now>>
     ELSE /\ ClockRuns
          /\ activities' = [activities EXCEPT ![id] =
               [@ EXCEPT
                  !.name =
                     IF input.name # Undefined THEN input.name[1] ELSE @,
                  !.description =
                     IF input.description # Undefined
                     THEN input.description[1] ELSE @,
                  !.estimated_start_date =
                     IF input.estimated_start_date # Undefined
                     THEN IsoDate(input.estimated_start_date[1]) ELSE @,
                  !.estimated_end_date =
                     IF input.estimated_end_date # Undefined
                     THEN IsoDate(input.estimated_end_date[1]) ELSE @,
                  !.actual_start_date =
                     IF input.actual_start_date = Undefined THEN @
                     ELSE IF input.actual_start_date[1] = None THEN None
                     ELSE Some(IsoDate(input.actual_start_date[1][1])),
                  !.actual_end_date =
                     IF input.actual_end_date = Undefined THEN @
                     ELSE IF input.actual_end_date[1] = None THEN None
                     ELSE Some(IsoDate(input.actual_end_date[1][1])),
                  !.contractor =
                     IF input.contractor # Undefined
                     THEN input.contractor[1] ELSE @,
                  !.planned_budget_usd =
                     IF input.planned_budget_usd # Undefined
                     THEN ToNumeric(input.planned_budget_usd[1], 2) ELSE @,
                  !.actual_cost_crc =
                     IF input.actual_cost_crc = Undefined THEN @
                     ELSE IF input.actual_cost_crc[1] = None THEN None
                     ELSE Some(ToNumeric(input.actual_cost_crc[1][1], 2)),
                  !.status =
                     IF input.status # Undefined /\ @ \notin {"completed", "cancelled"}
                     THEN input.status[1] ELSE @,
                  !.updated_at = now]]
          /\ now' = now + 1
          /\ resp' = Response("updateActivity", "ok")
  /\ analysis' = None
  /\ UNCHANGED <<projects, history, reqs, app, result>>

UpdateActivity(id, input) ==
  /\ IF ~OptPositive(input.planned_budget_usd)
     THEN /\ resp' = Response("updateActivity", "Validation")
          /\ UNCHANGED <<activities, now>>
     ELSE IF \/ OptOverflow(input.planned_budget_usd, 10, 2)
             \/ /\ input.actual_cost_crc # Undefined
                /\ OptOverflow(input.actual_cost_crc[1], 12, 2)
     THEN /\ resp' = Response("updateActivity", "DbError")
          /\ UNCHANGED <<activities, now>>
     ELSE IF ~ActivityExists(id)
     THEN /\ resp' = Response("updateActivity", "NotFound")
          /\ UNCHANGED <<activities, now>>
     ELSE /\ ClockRuns
          /\ activities' = [activities EXCEPT ![id] =
               [@ EXCEPT
                  !.name =
                     IF input.name # Undefined THEN input.name[1] ELSE @,
                  !.description =
                     IF input.description # Undefined
                     THEN input.description[1] ELSE @,
                  !.estimated_start_date =
                     IF input.estimated_start_date # Undefined
                     THEN IsoDate(input.estimated_start_date[1]) ELSE @,
                  !.estimated_end_date =
                     IF input.estimated_end_date # Undefined
                     THEN IsoDate(input.estimated_end_date[1]) ELSE @,
                  !.actual_start_date =
                     IF input.actual_start_date = Undefined THEN @
                     ELSE IF input.actual_start_date[1] = None THEN None
                     ELSE Some(IsoDate(input.actual_start_date[1][1])),
                  !.actual_end_date =
                     IF input.actual_end_date = Undefined THEN @
                     ELSE IF input.actual_end_date[1] = None THEN None
                     ELSE Some(IsoDate(input.actual_end_date[1][1])),
                  !.contractor =
                     IF input.contractor # Undefined
                     THEN input.contractor[1] ELSE @,
                  !.planned_budget_usd =
                     IF input.planned_budget_usd # Undefined
                     THEN ToNumeric(input.planned_budget_usd[1], 2) ELSE @,
                  !.actual_cost_crc =
                     IF input.actual_cost_crc = Undefined THEN @
                     ELSE IF input.actual_cost_crc[1] = None THEN None
                     ELSE Some(ToNumeric(input.actual_cost_crc[1][1], 2)),
                  !.status =
                     IF input.status # Undefined THEN input.status[1] ELSE @,
                  !.updated_at = now]]
          /\ now' = now + 1
          /\ resp' = Response("updateActivity", "ok")
  /\ analysis' = None
  /\ UNCHANGED <<projects, history, reqs, app, result>>

(* ------------------------ updateExchangeRate -------------------------- *)

HistoryRow(id, projectId, rate, t) ==
  [id |-> id, project_id |-> projectId, usd_to_crc_rate |-> rate,
   effective_date |-> t, created_at |-> t]

Running(r) == reqs[r].pc # "idle"

\* the arrival without the select that verifies the project
UER_Select_NoCheck(r, projectId, rate) ==
  /\ ~Running(r)
  /\ IF ~Positive(rate)
     THEN /\ resp' = Response("updateExchangeRate", "Validation")
          /\ analysis' = None
          /\ UNCHANGED reqs
     ELSE /\ reqs' = [reqs EXCEPT ![r] =
               [pc |-> "update", project_id |-> projectId,
                usd_to_crc_rate |-> rate]]
          /\ UNCHANGED <<resp, analysis>>
  /\ UNCHANGED <<projects, activities, history, now, app, result>>

\* the call arrives: schema check, then the select that verifies the project
UER_Select(r, projectId, rate) ==
  /\ ~Running(r)
  /\ IF ~Positive(rate)
     THEN /\ resp' = Response("updateExchangeRate", "Validation")
          /\ analysis' = None
          /\ UNCHANGED reqs
     ELSE IF ~ProjectExists(projectId)
     THEN /\ resp' = Response("updateExchangeRate", "NotFound")
          /\ analysis' = None
          /\ UNCHANGED reqs
     ELSE /\ reqs' = [reqs EXCEPT ![r] =
               [pc |-> "update", project_id |-> projectId,
                usd_to_crc_rate |-> rate]]
          /\ UNCHANGED <<resp, analysis>>
  /\ UNCHANGED <<projects, activities, history, now, app, result>>

\* the update of projectsTable: current_exchange_rate and updated_at
UER_Update(r) ==
  /\ reqs[r].pc = "update"
  /\ IF NumericOverflow(reqs[r].usd_to_crc_rate, 8, 4)
     THEN /\ reqs' = [reqs EXCEPT ![r] = IdleReq]
          /\ resp' = Response("updateExchangeRate", "DbError")
          /\ analysis' = None
          /\ UNCHANGED <<projects, now>>
     ELSE /\ ClockRuns
          /\ projects' = [projects EXCEPT ![reqs[r].project_id] =
               [@ EXCEPT
                  !.current_exchange_rate =
                     ToNumeric(reqs[r].usd_to_crc_rate, 4),
                  !.updated_at = now]]
          /\ now' = now + 1
          /\ reqs' = [reqs EXCEPT ![r].pc = "insert"]
          /\ UNCHANGED <<resp, analysis>>
  /\ UNCHANGED <<activities, history, app, result>>

\* the insert as an upsert: the project's newest entry is overwritten
UER_Insert_Overwrite(r) ==
  /\ reqs[r].pc = "insert"
  /\ LET row == HistoryRow(Len(history) + 1, reqs[r].project_id,
                           ToNumeric(reqs[r].usd_to_crc_rate, 4), now)
     IN  history' =
           IF history # <<>>
                /\ history[Len(history)].project_id = reqs[r].project_id
           THEN [history EXCEPT ![Len(history)] = [row EXCEPT !.id = @ - 1]]
           ELSE Append(history, row)
  /\ reqs' = [reqs EXCEPT ![r] = IdleReq]
  /\ resp' = Response("updateExchangeRate", "ok")
  /\ analysis' = None
  /\ UNCHANGED <<projects, activities, now, app, result>>

\* the insert skipped when the project's latest history row has the rate
UER_Insert_SkipSameRate(r) ==
  /\ reqs[r].pc = "insert"
  /\ LET h == SelectByProject(history, reqs[r].project_id)
         rate == ToNumeric(reqs[r].usd_to_crc_rate, 4)
     IN  history' =
           IF h # <<>> /\ h[Len(h)].usd_to_crc_rate = rate
           THEN history
           ELSE Append(history,
                  HistoryRow(Len(history) + 1, reqs[r].project_id, rate, now))
  /\ reqs' = [reqs EXCEPT ![r] = IdleReq]
  /\ resp' = Response("updateExchangeRate", "ok")
  /\ analysis' = None
  /\ UNCHANGED <<projects, activities, now, app, result>>

\* the insert into exchangeRateHistoryTable (effective_date and created_at
\* default to the store's clock) and the return of the new row
UER_Insert(r) ==
  /\ reqs[r].pc = "insert"
  /\ history' = Append(history,
       HistoryRow(Len(history) + 1, reqs[r].project_id,
                  ToNumeric(reqs[r].usd_to_crc_rate, 4), now))
  /\ reqs' = [reqs EXCEPT ![r] = IdleReq]
  /\ resp' = Response("updateExchangeRate", "ok")
  /\ analysis' = None
  /\ UNCHANGED <<projects, activities, now, app, result>>

\* the store fails the statement the call is about to run; the catch block
\* logs and rethrows, nothing is undone
UER_StatementFails(r) ==
  /\ Running(r)
  /\ reqs' = [reqs EXCEPT ![r] = IdleReq]
  /\ resp' = Response("updateExchangeRate", "DbError")
  /\ analysis' = None
  /\ UNCHANGED <<projects, activities, history, now, app, result>>

(* --------------------------- specifications --------------------------- *)

\* the store after createDB: empty tables
Init ==
  /\ projects = <<>>
  /\ activities = <<>>
  /\ history = <<>>
  /\ now = 1
  /\ reqs = [r \in ReqIds |-> IdleReq]
  /\ resp = NoResponse
  /\ analysis = None
  /\ app = NoApp
  /\ result = None

UER_Step(r) ==
  \/ \E projectId \in ProjectIds, rate \in RateInputs :
       UER_Select(r, projectId, rate)
  \/ UER_Update(r)
  \/ UER_Insert(r)
  \/ UER_StatementFails(r)

Quiescent == \A r \in ReqIds : ~Running(r)

\* the server taking one call at a time: a handler starts only when no
\* updateExchangeRate call is between its statements
Next ==
  \/ \E budget \in CreateBudgetInputs, rate \in RateInputs :
       Quiescent /\ CreateProject(budget, rate)
  \/ \E id \in ProjectIds, input \in UpdateProjectInputs :
       Quiescent /\ UpdateProject(id, input)
  \/ \E projectId \in ProjectIds, planned \in PlannedInputs :
       Quiescent /\ CreateActivity(projectId, planned)
  \/ \E id \in ActivityIds, input \in UpdateActivityInputs :
       Quiescent /\ UpdateActivity(id, input)
  \/ \E projectId \in ProjectIds :
       Quiescent /\ GetBudgetAnalysis(projectId)
  \/ UER_Step(1)

Spec == Init /\ [][Next]_vars

\* the exchange-rate side of the server under concurrent calls: the
\* statements of the updateExchangeRate calls interleave
ConcNext ==
  \/ \E budget \in CreateBudgetInputs, rate \in RateInputs :
       CreateProject(budget, rate)
  \/ \E r \in ReqIds : UER_Step(r)

ConcSpec == Init /\ [][ConcNext]_vars

\* the exchange-rate side of the server with one call at a time
RateNext ==
  \/ \E budget \in CreateBudgetInputs, rate \in RateInputs :
       Quiescent /\ CreateProject(budget, rate)
  \/ UER_Step(1)

RateSpec == Init /\ [][RateNext]_vars

\* a stored project with up to MaxActivities activities, as createProject
\* and createActivity leave them at time 0: no cost recorded yet
RateChangeInit ==
  /\ \E rate \in StoredRates :
       projects = <<ProjectRow(1, ToNumeric(Num(1), 2), rate, 0)>>
  /\ \E n \in 0..MaxActivities :
       activities = [i \in 1..n |-> ActivityRow(i, 1, ToNumeric(Num(1), 2), 0)]
  /\ history = <<>>
  /\ now = 1
  /\ reqs = [r \in ReqIds |-> IdleReq]
  /\ resp = NoResponse
  /\ analysis = None
  /\ app = NoApp
  /\ result = None

\* updateProject inputs that carry only a rate
RateChanges ==
  {input \in UpdateProjectInputs :
     input.total_budget_usd = Undefined
       /\ input.current_exchange_rate # Undefined}

\* updateActivity inputs that carry only a cost
CostChanges ==
  {input \in UpdateActivityInputs :
     input.status = Undefined /\ input.planned_budget_usd = Undefined}

\* rate changes by either handler, cost changes and analyses, one call at
\* a time, over the stored rows
RateChangeNext ==
  \/ \E id \in ProjectIds, input \in RateChanges :
       Quiescent /\ UpdateProject(id, input)
  \/ \E id \in ActivityIds, input \in CostChanges :
       Quiescent /\ UpdateActivity(id, input)
  \/ \E projectId \in ProjectIds :
       Quiescent /\ GetBudgetAnalysis(projectId)
  \/ UER_Step(1)

RateChangeSpec == RateChangeInit /\ [][RateChangeNext]_vars

\* up to MaxProjects stored projects and no activity yet
ActivityInit ==
  /\ \E n \in 0..MaxProjects :
       projects =
         [i \in 1..n |->
            ProjectRow(i, ToNumeric(Num(1), 2), ToNumeric(Num(1), 4), 0)]
  /\ activities = <<>>
  /\ history = <<>>
  /\ now = 1
  /\ reqs = [r \in ReqIds |-> IdleReq]
  /\ resp = NoResponse
  /\ analysis = None
  /\ app = NoApp
  /\ result = None

\* the activity calls of the server, one at a time
ActivityNext ==
  \/ \E projectId \in ProjectIds, planned \in PlannedInputs :
       CreateActivity(projectId, planned)
  \/ \E id \in ActivityIds, input \in UpdateActivityInputs :
       UpdateActivity(id, input)

ActivitySpec == ActivityInit /\ [][ActivityNext]_vars

\* EditRows projects and EditRows activities of the first project, as
\* earlier calls left them: each row either as it was inserted or with
\* its optional fields filled in
EditInit ==
  /\ \E filled \in [1..EditRows -> BOOLEAN] :
       /\ projects =
            [i \in 1..EditRows |->
               IF filled[i]
               THEN [ProjectRow(i, ToNumeric(Num(1), 2),
                                ToNumeric(Num(1), 4), 0)
                       EXCEPT !.description = Some("plans")]
               ELSE ProjectRow(i, ToNumeric(Num(1), 2),
                               ToNumeric(Num(1), 4), 0)]
       /\ activities =
            [i \in 1..EditRows |->
               IF filled[i]
               THEN [ActivityRow(i, 1, ToNumeric(Num(1), 2), 0) EXCEPT
                       !.description = Some("brick"),
                       !.contractor = Some("acme"),
                       !.actual_start_date = Some(0),
                       !.actual_end_date = Some(0),
                       !.actual_cost_crc = Some(ToNumeric(Num(1), 2)),
                       !.status = "in_progress"]
               ELSE ActivityRow(i, 1, ToNumeric(Num(1), 2), 0)]
  /\ history = <<>>
  /\ now = 1
  /\ reqs = [r \in ReqIds |-> IdleReq]
  /\ resp = NoResponse
  /\ analysis = None
  /\ app = NoApp
  /\ result = None

\* ids an update may name; the last one references no row
EditIds == 1..(EditRows + 1)

\* updateProjectInputSchema without id: no field, each field alone, all
EditProjectInputs ==
  LET NoChange == NoProjectChange
  IN  {NoChange,
       [NoChange EXCEPT !.name = <<"home">>],
       [NoChange EXCEPT !.description = <<None>>],
       [NoChange EXCEPT !.description = <<Some("plans")>>],
       [NoChange EXCEPT !.total_budget_usd = <<Num(2)>>],
       [NoChange EXCEPT !.current_exchange_rate = <<Num(2)>>],
       [NoChange EXCEPT !.start_date = <<3>>],
       [NoChange EXCEPT !.end_date = <<3>>],
       [name |-> <<"home">>, description |-> <<None>>,
        total_budget_usd |-> <<Num(2)>>,
        current_exchange_rate |-> <<Num(2)>>,
        start_date |-> <<3>>, end_date |-> <<3>>]}

\* updateActivityInputSchema without id: no field, each field alone, a
\* name with a status
EditActivityInputs ==
  LET NoChange == NoActivityChange
  IN  {NoChange,
       [NoChange EXCEPT !.name = <<"roof">>],
       [NoChange EXCEPT !.description = <<None>>],
       [NoChange EXCEPT !.estimated_start_date = <<3>>],
       [NoChange EXCEPT !.estimated_end_date = <<3>>],
       [NoChange EXCEPT !.actual_start_date = <<None>>],
       [NoChange EXCEPT !.actual_start_date = <<Some(3)>>],
       [NoChange EXCEPT !.actual_end_date = <<None>>],
       [NoChange EXCEPT !.actual_end_date = <<Some(3)>>],
       [NoChange EXCEPT !.contractor = <<None>>],
       [NoChange EXCEPT !.planned_budget_usd = <<Num(2)>>],
       [NoChange EXCEPT !.actual_cost_crc = <<None>>],
       [NoChange EXCEPT !.actual_cost_crc = <<Some(Num(2))>>],
       [NoChange EXCEPT !.status = <<"completed">>],
       [NoChange EXCEPT !.name = <<"roof">>, !.status = <<"planned">>]}

\* update calls on the stored rows, one at a time
EditNext ==
  \/ \E id \in EditIds, input \in EditProjectInputs :
       now <= MaxEdits /\ UpdateProject(id, input)
  \/ \E id \in EditIds, input \in EditActivityInputs :
       now <= MaxEdits /\ UpdateActivity(id, input)

EditSpec == EditInit /\ [][EditNext]_vars

(* ------------------------------ client ------------------------------- *)

\* new Date(day) of a date column: midnight of that day
DateOf(day) == day * TicksPerDay

\* the Activity a handler returns for a stored row: numeric columns parsed,
\* date columns turned into Dates
ToActivity(row) ==
  [row EXCEPT
     !.planned_budget_usd = ParseFloat(@, 2),
     !.actual_cost_crc = IF @ # None THEN Some(ParseFloat(@[1], 2)) ELSE None,
     !.estimated_start_date = DateOf(@),
     !.estimated_end_date = DateOf(@),
     !.actual_start_date = IF @ # None THEN Some(DateOf(@[1])) ELSE None,
     !.actual_end_date = IF @ # None THEN Some(DateOf(@[1])) ELSE None]

\* the Project a handler returns for a stored row
ToProject(row) ==
  [row EXCEPT
     !.total_budget_usd = ParseFloat(@, 2),
     !.current_exchange_rate = ParseFloat(@, 4),
     !.start_date = DateOf(@),
     !.end_date = DateOf(@)]

\* getActivities: the activities of one project, converted (the rows of
\* one project share their estimated start here, so the order is row order)
GetActivities(projectId) ==
  LET rows == SelectByProject(activities, projectId)
  IN  [i \in 1..Len(rows) |-> ToActivity(rows[i])]

\* reduce((sum, act) => sum + act.planned_budget_usd, 0)
RECURSIVE TotalPlanned(_)
TotalPlanned(acts) ==
  IF acts = <<>> THEN Num(0)
  ELSE RAdd(TotalPlanned(SubSeq(acts, 1, Len(acts) - 1)),
            acts[Len(acts)].planned_budget_usd)

\* reduce((sum, act) => sum + (act.actual_cost_crc || 0) / rate, 0)
RECURSIVE ActualCost(_, _)
ActualCost(acts, rate) ==
  IF acts = <<>> THEN Num(0)
  ELSE LET act == acts[Len(acts)]
       IN  RAdd(ActualCost(SubSeq(acts, 1, Len(acts) - 1), rate),
                RDiv(IF act.actual_cost_crc # None
                     THEN act.actual_cost_crc[1] ELSE Num(0), rate))

\* filter(act => act.status === 'completed').length
Completed(acts) ==
  Cardinality({i \in 1..Len(acts) : acts[i].status = "completed"})

\* updatedAnalysis of handleActivityUpdated: the analysis the client
\* recomputes from its own list of activities
UpdatedAnalysis(budgetAnalysis, selectedProject, updatedActivities) ==
  LET totalPlanned == TotalPlanned(updatedActivities)
      actualCost ==
        ActualCost(updatedActivities, selectedProject.current_exchange_rate)
      completed == Completed(updatedActivities)
  IN  [budgetAnalysis EXCEPT
         !.total_planned_budget_usd = totalPlanned,
         !.total_actual_cost_usd = actualCost,
         !.remaining_budget_usd =
            RSub(selectedProject.total_budget_usd, actualCost),
         !.budget_utilization_percentage =
            RMul(RDiv(actualCost, selectedProject.total_budget_usd),
                 Num(100)),
         !.projected_total_cost_usd = totalPlanned,
         !.projected_over_budget_usd =
            MathMax(Num(0),
                    RSub(totalPlanned, selectedProject.total_budget_usd)),
         !.is_over_budget_risk =
            RGt(totalPlanned, selectedProject.total_budget_usd),
         !.completed_activities_count = completed,
         !.total_activities_count = Len(updatedActivities),
         !.project_completion_percentage =
            IF Len(updatedActivities) > 0
            THEN RMul(RDiv(Num(completed), Num(Len(updatedActivities))),
                      Num(100))
            ELSE Num(0)]

\* handleActivityUpdated, the onActivityUpdated callback of ActivityList:
\* replaces the activity with the same id and recomputes the analysis
HandleActivityUpdated(updatedActivity) ==
  LET updatedActivities ==
        [i \in 1..Len(app.activities) |->
           IF app.activities[i].id = updatedActivity.id
           THEN updatedActivity ELSE app.activities[i]]
  IN  app' = [app EXCEPT
                !.activities = updatedActivities,
                !.budgetAnalysis =
                   IF app.selectedProject # None /\ @ # None
                   THEN Some(UpdatedAnalysis(@[1], app.selectedProject[1],
                                             updatedActivities))
                   ELSE @]

\* the status change that stamps the start date whatever it held
UpdatedActivity_AlwaysStart(activity, newStatus, t) ==
  [activity EXCEPT
     !.status = newStatus,
     !.actual_start_date = IF newStatus = "in_progress" THEN Some(t) ELSE @,
     !.actual_end_date =
        IF newStatus \in {"completed", "cancelled"} THEN Some(t) ELSE @,
     !.updated_at = t]

\* the status change that keeps an end date already set
UpdatedActivity_KeepEnd(activity, newStatus, t) ==
  [activity EXCEPT
     !.status = newStatus,
     !.actual_start_date =
        IF newStatus = "in_progress" /\ @ = None THEN Some(t) ELSE @,
     !.actual_end_date =
        IF newStatus \in {"completed", "cancelled"} /\ @ = None
        THEN Some(t) ELSE @,
     !.updated_at = t]

\* the status change that clears the recorded cost
UpdatedActivity_DropCost(activity, newStatus, t) ==
  [activity EXCEPT
     !.status = newStatus,
     !.actual_start_date =
        IF newStatus = "in_progress" /\ @ = None THEN Some(t) ELSE @,
     !.actual_end_date =
        IF newStatus \in {"completed", "cancelled"} THEN Some(t) ELSE @,
     !.actual_cost_crc = None,
     !.updated_at = t]

\* updatedActivity of handleStatusUpdate, built at time t
UpdatedActivity(activity, newStatus, t) ==
  [activity EXCEPT
     !.status = newStatus,
     !.actual_start_date =
        IF newStatus = "in_progress" /\ @ = None THEN Some(t) ELSE @,
     !.actual_end_date =
        IF newStatus \in {"completed", "cancelled"} THEN Some(t) ELSE @,
     !.updated_at = t]

\* handleStatusUpdate of ActivityList: builds the updated activity on the
\* client and hands it to onActivityUpdated; no server call is made
HandleStatusUpdate(activity, newStatus) ==
  /\ ClockRuns
  /\ HandleActivityUpdated(UpdatedActivity(activity, newStatus, now))
  /\ now' = now + 1
  /\ UNCHANGED <<projects, activities, history, reqs, resp, analysis,
               result>>

\* the rows behind the client: one project and up to MaxActivities
\* activities, the first in any status with or without actual dates
\* and cost
ClientRows ==
  /\ projects =
       <<ProjectRow(1, ToNumeric(Num(1), 2), ToNumeric(Num(2), 4), 0)>>
  /\ \E n \in 0..MaxActivities :
       \E status \in Statuses, started, ended \in {None, Some(0)},
          cost \in {None, Some(ToNumeric(Num(1), 2))} :
         activities =
           [i \in 1..n |->
              IF i = 1
              THEN [ActivityRow(i, 1, ToNumeric(Num(1), 2), 0) EXCEPT
                      !.status = status, !.actual_start_date = started,
                      !.actual_end_date = ended, !.actual_cost_crc = cost]
              ELSE ActivityRow(i, 1, ToNumeric(Num(1), 2), 0)]

\* App after loadProjects selected the first project and loadProjectData
\* stored what getActivities and getBudgetAnalysis returned for it
ClientInit ==
  /\ ClientRows
  /\ history = <<>>
  /\ now = 1
  /\ reqs = [r \in ReqIds |-> IdleReq]
  /\ resp = NoResponse
  /\ analysis = None
  /\ result = None
  /\ app = [projects |-> <<ToProject(projects[1])>>,
            selectedProject |-> Some(ToProject(projects[1])),
            activities |-> GetActivities(1),
            budgetAnalysis |->
              Some(BudgetAnalysis(1, projects[1],
                                  SelectByProject(activities, 1)))]

\* the status buttons of the activity list, pressed one after another
ClientNext ==
  \E i \in 1..Len(app.activities), newStatus \in Statuses :
    HandleStatusUpdate(app.activities[i], newStatus)

ClientSpec == ClientInit /\ [][ClientNext]_vars

(* ----------------------- the status of activities --------------------- *)

\* updateActivity inputs that carry only a status
StatusChanges ==
  {[NoActivityChange EXCEPT !.status = <<st>>] : st \in Statuses}

\* one project whose activities are each in any of the four statuses; a
\* completed or cancelled one carries the end date it was closed with
StatusInit ==
  /\ projects = <<ProjectRow(1, ToNumeric(Num(1), 2), ToNumeric(Num(1), 4), 0)>>
  /\ \E status \in [1..EditRows -> Statuses] :
       activities =
         [i \in 1..EditRows |->
            [ActivityRow(i, 1, ToNumeric(Num(1), 2), 0) EXCEPT
               !.status = status[i],
               !.actual_end_date =
                  IF status[i] \in {"completed", "cancelled"}
                  THEN Some(0) ELSE None]]
  /\ history = <<>>
  /\ now = 1
  /\ reqs = [r \in ReqIds |-> IdleReq]
  /\ resp = NoResponse
  /\ analysis = None
  /\ app = NoApp
  /\ result = None

\* status updates of the stored activities, one call after another
StatusNext ==
  \E id \in EditIds, input \in StatusChanges : UpdateActivity(id, input)

StatusSpec == StatusInit /\ [][StatusNext]_vars

(* ------------------------------ reads --------------------------------- *)

\* getProjectById handing back a Not-Found error for a missing id
GetProjectById_Throw(id) ==
  /\ IF ~ProjectExists(id)
     THEN /\ resp' = Response("getProjectById", "NotFound")
          /\ result' = None
     ELSE /\ resp' = Response("getProjectById", "ok")
          /\ result' = Some(Some(ToProject(projects[id])))
  /\ UNCHANGED <<projects, activities, history, now, reqs, analysis, app>>

\* getProjectById: null when no row has the id, else the converted row;
\* result holds the returned Project | null as a nullable
GetProjectById(id) ==
  /\ IF ~ProjectExists(id)
     THEN /\ resp' = Response("getProjectById", "ok")
          /\ result' = Some(None)
     ELSE /\ resp' = Response("getProjectById", "ok")
          /\ result' = Some(Some(ToProject(projects[id])))
  /\ UNCHANGED <<projects, activities, history, now, reqs, analysis, app>>

\* the getActivities call: the list the handler returns
GetActivitiesQuery(projectId) ==
  /\ resp' = Response("getActivities", "ok")
  /\ result' = Some(GetActivities(projectId))
  /\ UNCHANGED <<projects, activities, history, now, reqs, analysis, app>>

\* the ExchangeRateHistory a handler returns for a stored row
ToExchangeRateHistory(row) ==
  [row EXCEPT !.usd_to_crc_rate = ParseFloat(@, 4)]

\* getExchangeRateHistory: the entries of one project, newest
\* effective_date first; entries of equal date come in any order
GetExchangeRateHistory(projectId) ==
  LET rows == SelectByProject(history, projectId)
  IN  /\ \E perm \in Permutations(1..Len(rows)) :
           LET results == [i \in 1..Len(rows) |-> rows[perm[i]]]
           IN  /\ \A i, j \in 1..Len(rows) :
                    i < j =>
                      results[i].effective_date >= results[j].effective_date
               /\ result' = Some([i \in 1..Len(rows) |->
                                    ToExchangeRateHistory(results[i])])
      /\ resp' = Response("getExchangeRateHistory", "ok")
      /\ UNCHANGED <<projects, activities, history, now, reqs, analysis,
                     app>>

\* the store fails the select of a read; the catch block logs and rethrows
ReadFails(op) ==
  /\ resp' = Response(op, "DbError")
  /\ result' = None
  /\ UNCHANGED <<projects, activities, history, now, reqs, analysis, app>>

\* a store the reads find: up to ReadProjects projects, and up to ReadRows
\* activities and history entries, each of an existing project; the first
\* two history entries carry the same effective_date
ReadInit ==
  /\ \E n \in 0..ReadProjects :
       /\ projects =
            [i \in 1..n |->
               ProjectRow(i, ToNumeric(Num(1), 2), ToNumeric(Num(2), 4), 0)]
       /\ \E k \in 0..ReadRows :
            \E owner \in [1..k -> 1..n] :
              activities =
                [i \in 1..k |->
                   ActivityRow(i, owner[i], ToNumeric(Num(1), 2), 0)]
       /\ \E k \in 0..ReadRows :
            \E owner \in [1..k -> 1..n] :
              history =
                [i \in 1..k |->
                   HistoryRow(i, owner[i], ToNumeric(Num(2), 4),
                              (i + 1) \div 2)]
  /\ now = 1
  /\ reqs = [r \in ReqIds |-> IdleReq]
  /\ resp = NoResponse
  /\ analysis = None
  /\ app = NoApp
  /\ result = None

\* the ids a read may ask for: the stored ones and one that is missing
ReadIds == 1..(ReadProjects + 1)

\* the read calls of the server, one at a time
ReadNext ==
  \/ \E id \in ReadIds : GetProjectById(id)
  \/ \E projectId \in ReadIds : GetActivitiesQuery(projectId)
  \/ \E projectId \in ReadIds : GetExchangeRateHistory(projectId)
  \/ \E op \in {"getProjectById", "getActivities",
                "getExchangeRateHistory"} : ReadFails(op)

ReadSpec == ReadInit /\ [][ReadNext]_vars

(* ------------------------- the client's loads ------------------------- *)

\* loadProjects of App: the list of all projects; the first one becomes
\* the selected project when none is selected. When the query fails the
\* list is set to the empty demo list.
LoadProjects(fails) ==
  /\ IF fails
     THEN /\ resp' = Response("getProjects", "DbError")
          /\ result' = None
          /\ app' = [app EXCEPT !.projects = <<>>]
     ELSE LET res == [i \in 1..Len(projects) |-> ToProject(projects[i])]
          IN  /\ resp' = Response("getProjects", "ok")
              /\ result' = Some(res)
              /\ app' = [app EXCEPT
                           !.projects = res,
                           !.selectedProject =
                              IF @ = None /\ Len(res) > 0
                              THEN Some(res[1]) ELSE @]
  /\ UNCHANGED <<projects, activities, history, now, reqs, analysis>>

\* the button of a project in the project list: setSelectedProject(project)
SelectProject(i) ==
  /\ i \in 1..Len(app.projects)
  /\ app' = [app EXCEPT !.selectedProject = Some(app.projects[i])]
  /\ UNCHANGED <<projects, activities, history, now, reqs, resp, analysis,
                 result>>

\* demoBudgetAnalysis of loadProjectData's catch block; the callback is
\* memoised with no dependencies, so the selectedProject it reads is the
\* null of the first render and total_budget_usd falls back to 100000
DemoBudgetAnalysis(projectId) ==
  [project_id |-> projectId,
   total_budget_usd |-> Num(100000),
   total_planned_budget_usd |-> Num(0),
   total_actual_cost_usd |-> Num(0),
   remaining_budget_usd |-> Num(100000),
   budget_utilization_percentage |-> Num(0),
   projected_total_cost_usd |-> Num(0),
   projected_over_budget_usd |-> Num(0),
   is_over_budget_risk |-> FALSE,
   completed_activities_count |-> 0,
   total_activities_count |-> 0,
   project_completion_percentage |-> Num(0)]

\* loadProjectData(selectedProject.id) of App: getActivities and
\* getBudgetAnalysis together; failed names the query that throws ("" when
\* none does). The catch block empties the activities and shows the demo
\* analysis.
LoadProjectData(projectId, failed) ==
  /\ app.selectedProject # None
  /\ projectId = app.selectedProject[1].id
  /\ IF failed # "" \/ ~ProjectExists(projectId)
     THEN /\ resp' = IF failed # "" THEN Response(failed, "DbError")
                     ELSE Response("getBudgetAnalysis", "NotFound")
          /\ analysis' = None
          /\ result' = None
          /\ app' = [app EXCEPT
                       !.activities = <<>>,
                       !.budgetAnalysis =
                          Some(DemoBudgetAnalysis(projectId))]
     ELSE LET budgetResult ==
                BudgetAnalysis(projectId, projects[projectId],
                               SelectByProject(activities, projectId))
          IN  /\ resp' = Response("getBudgetAnalysis", "ok")
              /\ analysis' = Some(budgetResult)
              /\ result' = Some(GetActivities(projectId))
              /\ app' = [app EXCEPT
                           !.activities = GetActivities(projectId),
                           !.budgetAnalysis = Some(budgetResult)]
  /\ UNCHANGED <<projects, activities, history, now, reqs>>

\* the queries of loadProjectData
LoadQueries == {"getActivities", "getBudgetAnalysis"}

\* the App component over a store that does not change: it loads the
\* projects, selects one and loads its data, any query failing or not
LoadNext ==
  \/ \E fails \in BOOLEAN : LoadProjects(fails)
  \/ \E i \in 1..ReadProjects : SelectProject(i)
  \/ \E projectId \in ReadIds, failed \in LoadQueries \cup {""} :
       LoadProjectData(projectId, failed)

LoadSpec == ReadInit /\ [][LoadNext]_vars

(* --------------------- claims on the calculator ----------------------- *)

\* the rows the last analysis was computed from (CalcSpec never writes)
AnalysedProject == projects[analysis[1].project_id]
AnalysedActivities == SelectByProject(activities, analysis[1].project_id)

\* C1 as stated: projected_total_cost_usd is the extrapolation when
\* completion and actual cost are both positive, else the planned total
\* when that is positive, else 0.
C1_ProjectedThreeWayZero ==
  analysis # None =>
    LET a == analysis[1]
    IN  a.projected_total_cost_usd =
          IF /\ RGt(a.project_completion_percentage, Num(0))
             /\ RGt(a.total_actual_cost_usd, Num(0))
          THEN RMul(RDiv(a.total_actual_cost_usd,
                         a.project_completion_percentage), Num(100))
          ELSE IF RGt(a.total_planned_budget_usd, Num(0))
               THEN a.total_planned_budget_usd
               ELSE Num(0)

\* C1 amended: projected_total_cost_usd is the extrapolation when completion
\* and actual cost are both positive, else the planned total when that is
\* positive, else total_actual_cost_usd (0 only when nothing was spent).
C1_ProjectedThreeWayActual ==
  analysis # None =>
    LET a == analysis[1]
    IN  a.projected_total_cost_usd =
          IF /\ RGt(a.project_completion_percentage, Num(0))
             /\ RGt(a.total_actual_cost_usd, Num(0))
          THEN RMul(RDiv(a.total_actual_cost_usd,
                         a.project_completion_percentage), Num(100))
          ELSE IF RGt(a.total_planned_budget_usd, Num(0))
               THEN a.total_planned_budget_usd
               ELSE a.total_actual_cost_usd

\* an analysis that took the third branch with money spent
C1_Witness ==
  /\ analysis # None
  /\ ~RGt(analysis[1].project_completion_percentage, Num(0))
  /\ ~RGt(analysis[1].total_planned_budget_usd, Num(0))
  /\ RGt(analysis[1].total_actual_cost_usd, Num(0))
  /\ IsFinite(analysis[1].total_actual_cost_usd)
  /\ analysis[1].projected_total_cost_usd = analysis[1].total_actual_cost_usd

\* C2: is_over_budget_risk is true exactly when projected_over_budget_usd > 0
\* or (budget_utilization_percentage > 80 and project_completion_percentage
\* < 80); it is true whenever projected_total_cost_usd > total_budget_usd.
C2_OverBudgetRisk ==
  analysis # None =>
    LET a == analysis[1]
    IN  /\ a.is_over_budget_risk <=>
             \/ RGt(a.projected_over_budget_usd, Num(0))
             \/ /\ RGt(a.budget_utilization_percentage, Num(80))
                /\ RLt(a.project_completion_percentage, Num(80))
        /\ RGt(a.projected_total_cost_usd, a.total_budget_usd)
             => a.is_over_budget_risk

\* an analysis flagged only for high utilization at low completion
C2_Witness ==
  /\ analysis # None
  /\ analysis[1].is_over_budget_risk
  /\ analysis[1].projected_over_budget_usd = Num(0)
  /\ RGt(analysis[1].budget_utilization_percentage, Num(80))
  /\ IsFinite(analysis[1].budget_utilization_percentage)
  /\ RLt(analysis[1].project_completion_percentage, Num(80))

\* sum of the stored planned_budget_usd (in cents) of a list of rows
RECURSIVE SumPlannedCents(_)
SumPlannedCents(rows) ==
  IF rows = <<>> THEN 0
  ELSE rows[Len(rows)].planned_budget_usd
         + SumPlannedCents(SubSeq(rows, 1, Len(rows) - 1))

\* the same rows with every status replaced
WithStatus(rows, status) ==
  [i \in 1..Len(rows) |-> [rows[i] EXCEPT !.status = status]]

CompletedRows(rows) == {i \in 1..Len(rows) : rows[i].status = "completed"}

\* C9: total_planned_budget_usd is the sum of planned_budget_usd over all
\* activities and neither sum depends on status: with every activity
\* cancelled both sums are the same and nothing counts as completed.
C9_SumsIgnoreStatus ==
  analysis # None =>
    LET a == analysis[1]
        c == BudgetAnalysis(a.project_id, AnalysedProject,
                            WithStatus(AnalysedActivities, "cancelled"))
    IN  /\ a.total_planned_budget_usd =
             Norm(SumPlannedCents(AnalysedActivities), 100)
        /\ c.total_planned_budget_usd = a.total_planned_budget_usd
        /\ c.total_actual_cost_usd = a.total_actual_cost_usd
        /\ c.completed_activities_count = 0
        /\ a.completed_activities_count
             <= Len(AnalysedActivities)
                  - Cardinality({i \in 1..Len(AnalysedActivities) :
                                   AnalysedActivities[i].status = "cancelled"})

\* an analysis over a cancelled activity with a sunk cost next to a
\* completed one
C9_Witness ==
  /\ analysis # None
  /\ \E i, j \in 1..Len(AnalysedActivities) :
       /\ AnalysedActivities[i].status = "cancelled"
       /\ AnalysedActivities[i].actual_cost_crc = Some(100)
       /\ AnalysedActivities[i].planned_budget_usd = 100
       /\ AnalysedActivities[j].status = "completed"
  /\ analysis[1].completed_activities_count = 1
  /\ analysis[1].total_planned_budget_usd = Num(2)

\* C10: completed_activities_count is the number of completed activities,
\* at most total_activities_count; project_completion_percentage is
\* completed / total * 100, within 0..100, and 0 for an empty list.
C10_CompletionPercentage ==
  analysis # None =>
    LET a == analysis[1]
        pct == a.project_completion_percentage
    IN  /\ a.completed_activities_count
             = Cardinality(CompletedRows(AnalysedActivities))
        /\ a.total_activities_count = Len(AnalysedActivities)
        /\ a.completed_activities_count <= a.total_activities_count
        /\ IsFinite(pct)
        /\ pct[1] * a.total_activities_count
             = 100 * a.completed_activities_count * pct[2]
        /\ a.total_activities_count = 0 => pct = Num(0)
        /\ RLe(Num(0), pct) /\ RLe(pct, Num(100))

\* an analysis of two activities of which one is completed: 50 percent
C10_Witness ==
  /\ analysis # None
  /\ analysis[1].total_activities_count = 2
  /\ analysis[1].completed_activities_count = 1
  /\ analysis[1].project_completion_percentage = Num(50)

\* C11: projected_over_budget_usd is the excess of projected_total_cost_usd
\* over total_budget_usd when there is one and 0 when there is none, and it
\* is never negative (it is NaN exactly when the excess is NaN).
C11_OverBudgetNeverNegative ==
  analysis # None =>
    LET a == analysis[1]
        excess == RSub(a.projected_total_cost_usd, a.total_budget_usd)
        over == a.projected_over_budget_usd
    IN  /\ ~RLt(over, Num(0))
        /\ RGt(excess, Num(0)) => over = excess
        /\ RLe(excess, Num(0)) => over = Num(0)
        /\ IsNaN(excess) <=> IsNaN(over)

\* an analysis whose projection stays below the budget, floored at 0
C11_Witness ==
  /\ analysis # None
  /\ IsFinite(analysis[1].projected_total_cost_usd)
  /\ RLt(analysis[1].projected_total_cost_usd, analysis[1].total_budget_usd)
  /\ analysis[1].projected_over_budget_usd = Num(0)

\* C12: the analysis of a project without activities has utilization 0,
\* completion 0, planned 0, actual 0, remaining equal to the total budget,
\* projected cost 0, projected overrun 0 and no risk flag.
C12_NoActivities ==
  (analysis # None /\ AnalysedActivities = <<>>) =>
    LET a == analysis[1]
    IN  /\ a.budget_utilization_percentage = Num(0)
        /\ a.project_completion_percentage = Num(0)
        /\ a.total_planned_budget_usd = Num(0)
        /\ a.total_actual_cost_usd = Num(0)
        /\ a.remaining_budget_usd = a.total_budget_usd
        /\ a.total_budget_usd = ParseFloat(AnalysedProject.total_budget_usd, 2)
        /\ a.projected_total_cost_usd = Num(0)
        /\ a.projected_over_budget_usd = Num(0)
        /\ a.is_over_budget_risk = FALSE
        /\ a.total_activities_count = 0
        /\ a.completed_activities_count = 0

\* an analysis of a project with a positive budget and no activities
C12_Witness ==
  /\ analysis # None
  /\ AnalysedActivities = <<>>
  /\ analysis[1].total_activities_count = 0
  /\ RGt(analysis[1].remaining_budget_usd, Num(0))

\* C13: getBudgetAnalysis for an id that references no project fails with
\* Not-Found, returns no snapshot and changes nothing; no snapshot is ever
\* returned for a missing project.
C13_MissingProjectNotFound ==
  [][ /\ \A projectId \in ProjectIds :
           (~ProjectExists(projectId) /\ GetBudgetAnalysis(projectId)) =>
             (/\ resp' = Response("getBudgetAnalysis", "NotFound")
              /\ analysis' = None
              /\ UNCHANGED <<projects, activities, history>>)
      /\ (analysis' # None) => ProjectExists(analysis'[1].project_id)
      /\ (resp'.op = "getBudgetAnalysis" /\ resp'.outcome = "ok") =>
            (analysis' # None) ]_vars

\* a call for a missing project answered with Not-Found and no snapshot
C13_Witness ==
  /\ resp = Response("getBudgetAnalysis", "NotFound")
  /\ analysis = None
  /\ \E projectId \in ProjectIds : ~ProjectExists(projectId)

(* -------------------- claims on the exchange rate --------------------- *)

\* the step on which the updateExchangeRate call of r returns its new row
UER_Returns(r) ==
  /\ reqs[r].pc = "insert"
  /\ reqs'[r].pc = "idle"
  /\ resp' = Response("updateExchangeRate", "ok")

\* the step on which the updateExchangeRate call of r writes the project
UER_Writes(r) == reqs[r].pc = "update" /\ reqs'[r].pc = "insert"

LastOf(rows) == rows[Len(rows)]

\* what every successful call does, whatever the rate: one new history
\* row for the project, the project's rate equal to the row's, updated_at
\* set to a time later than the one it held
C3_AppendsAndOverwrites ==
  /\ UER_Writes(1) =>
       LET id == reqs[1].project_id
       IN  /\ projects'[id].updated_at = now
           /\ projects'[id].updated_at > projects[id].updated_at
  /\ UER_Returns(1) =>
       LET id == reqs[1].project_id
       IN  /\ Len(history') = Len(history) + 1
           /\ SubSeq(history', 1, Len(history)) = history
           /\ LastOf(history').project_id = id
           /\ LastOf(history').usd_to_crc_rate
                = projects'[id].current_exchange_rate
  /\ Len(history') # Len(history) => UER_Returns(1)

\* C3 as stated: a successful updateExchangeRate(project_id, r), for any
\* positive r, appends exactly one history entry carrying rate r and leaves
\* current_exchange_rate equal to r with updated_at refreshed.
C3_CarriesInputRate ==
  [][/\ C3_AppendsAndOverwrites
     /\ UER_Returns(1) =>
          /\ ParseFloat(LastOf(history').usd_to_crc_rate, 4)
               = Norm(reqs[1].usd_to_crc_rate[1], reqs[1].usd_to_crc_rate[2])
          /\ ParseFloat(projects'[reqs[1].project_id].current_exchange_rate, 4)
               = Norm(reqs[1].usd_to_crc_rate[1], reqs[1].usd_to_crc_rate[2])
    ]_vars

\* k / 10000 is the positive number q rounded to four decimals, a tie
\* going up: it lies within half a unit of q
IsRoundedTo4(q, k) ==
  /\ (2 * k - 1) * q[2] <= 2 * 10000 * q[1]
  /\ 2 * 10000 * q[1] < (2 * k + 1) * q[2]

\* C3 amended: with calls served one at a time, a successful
\* updateExchangeRate(project_id, r), for any positive r including the
\* current rate, appends exactly one history entry carrying r rounded to
\* four decimals (r itself when it has no more) and leaves
\* current_exchange_rate equal to that value with updated_at refreshed.
C3_CarriesStoredRate ==
  [][/\ C3_AppendsAndOverwrites
     /\ UER_Returns(1) =>
          /\ IsRoundedTo4(reqs[1].usd_to_crc_rate,
                          LastOf(history').usd_to_crc_rate)
          /\ IsRoundedTo4(reqs[1].usd_to_crc_rate,
               projects'[reqs[1].project_id].current_exchange_rate)
    ]_vars

\* two successive updates to the rate the project already had: two rows
C3_Witness ==
  /\ resp = Response("updateExchangeRate", "ok")
  /\ Quiescent
  /\ Len(history) = 2
  /\ history[1].project_id = 1 /\ history[2].project_id = 1
  /\ history[1].usd_to_crc_rate = history[2].usd_to_crc_rate
  /\ projects[1].current_exchange_rate = history[2].usd_to_crc_rate
  /\ projects[1].updated_at > projects[1].created_at

\* C4: the two writes of updateExchangeRate are one atomic unit: a call
\* that ends, however it ends, has either written the project's rate and
\* appended its history entry, or done neither.
C4_BothOrNeither ==
  [][(Running(1) /\ ~Running(1)') =>
       (reqs[1].pc = "insert" <=> Len(history') = Len(history) + 1)
    ]_vars

\* C5: each change of a project's current_exchange_rate made by an API call
\* comes with exactly one new history entry carrying the new rate, so a
\* project with history has the rate of its most recent entry.
C5_RateChangeAppendsHistory ==
  [][/\ (Quiescent /\ Quiescent') =>
          \A id \in 1..Len(projects) :
            projects'[id].current_exchange_rate
                # projects[id].current_exchange_rate
              => /\ Len(history') = Len(history) + 1
                 /\ LastOf(history').project_id = id
                 /\ LastOf(history').usd_to_crc_rate
                      = projects'[id].current_exchange_rate
     /\ Quiescent' =>
          \A id \in 1..Len(projects') :
            LET h == SelectByProject(history', id)
            IN  h # <<>> => projects'[id].current_exchange_rate
                              = LastOf(h).usd_to_crc_rate
    ]_vars

\* C6: when concurrent updateExchangeRate calls on a project have all
\* completed, current_exchange_rate is the rate of the history entry
\* appended last and each call's entry exists.
C6_LastWriteWins ==
  [][\A r \in ReqIds :
       (UER_Returns(r) /\ Quiescent') =>
         LET h == SelectByProject(history', reqs[r].project_id)
         IN  /\ Len(history') = Len(history) + 1
             /\ projects'[reqs[r].project_id].current_exchange_rate
                  = LastOf(h).usd_to_crc_rate
    ]_vars

\* C7: updateExchangeRate on a project id that references no project ends
\* with Not-Found and writes nothing: no history row is appended, no
\* project row (rate, updated_at) or activity row is touched, no call gets
\* past its lookup for a missing project and no history row names one.
C7_NotFoundChangesNothing ==
  [][/\ \A projectId \in ProjectIds, rate \in RateInputs :
          (/\ ~ProjectExists(projectId)
           /\ Positive(rate)
           /\ UER_Select(1, projectId, rate)) =>
            /\ resp' = Response("updateExchangeRate", "NotFound")
            /\ ~Running(1)'
            /\ UNCHANGED <<projects, activities, history>>
     /\ \A r \in ReqIds :
          Running(r)' => reqs'[r].project_id \in 1..Len(projects')
     /\ \A i \in 1..Len(history') :
          history'[i].project_id \in 1..Len(projects')
    ]_vars

\* a Not-Found answer with a project in the store and no history
C7_Witness ==
  /\ resp = Response("updateExchangeRate", "NotFound")
  /\ Len(projects) = 1
  /\ history = <<>>
  /\ projects[1].updated_at = projects[1].created_at

\* sum of the recorded actual_cost_crc (in cents) of a list of rows
RECURSIVE SumCostCents(_)
SumCostCents(rows) ==
  IF rows = <<>> THEN 0
  ELSE (IF LastOf(rows).actual_cost_crc = None THEN 0
        ELSE LastOf(rows).actual_cost_crc[1])
         + SumCostCents(SubSeq(rows, 1, Len(rows) - 1))

RecordedCosts(rows) ==
  {rows[i].actual_cost_crc[1] :
     i \in {j \in 1..Len(rows) : rows[j].actual_cost_crc # None}}

\* the recorded costs of the rows converted together at one stored rate;
\* at rate 0 each quotient is an infinity or NaN
CostsAtRate(rows, rate) ==
  IF rate > 0 THEN Norm(SumCostCents(rows) * 100, rate)
  ELSE LET costs == RecordedCosts(rows)
       IN  IF costs = {} THEN Num(0)
           ELSE IF \A c \in costs : c > 0 THEN PosInf
           ELSE IF \A c \in costs : c < 0 THEN NegInf
           ELSE NaN

\* C8: every analysis converts every recorded actual_cost_crc with the
\* rate the project holds when the analysis runs, whatever rate was in
\* force when the cost was recorded.
C8_UsesCurrentRate ==
  [][\A projectId \in ProjectIds :
       (GetBudgetAnalysis(projectId) /\ ProjectExists(projectId)) =>
         /\ analysis' # None
         /\ analysis'[1].total_actual_cost_usd =
              CostsAtRate(SelectByProject(activities, projectId),
                          projects[projectId].current_exchange_rate)
    ]_vars

\* an analysis at rate 2 of a cost of 1 CRC that was recorded while the
\* rate was 1
C8_Witness ==
  /\ analysis # None
  /\ resp = Response("getBudgetAnalysis", "ok")
  /\ projects[1].current_exchange_rate = 20000
  /\ Len(activities) = 1
  /\ activities[1].actual_cost_crc = Some(100)
  /\ Len(history) = 2
  /\ history[1].usd_to_crc_rate = 10000
  /\ history[2].usd_to_crc_rate = 20000
  /\ history[1].effective_date <= activities[1].updated_at
  /\ activities[1].updated_at < history[2].effective_date
  /\ analysis[1].total_actual_cost_usd = <<1, 2>>

(* ------------------ claims on the status transition ------------------ *)

\* the fields of an activity a change of status to newStatus is tied to
TiedFields(newStatus) ==
  {"status"}
    \cup (IF newStatus = "in_progress" THEN {"actual_start_date"} ELSE {})
    \cup (IF newStatus \in {"completed", "cancelled"}
          THEN {"actual_end_date"} ELSE {})

\* C14: a change of status to in_progress through handleStatusUpdate sets
\* actual_start_date to the current time when it was unset and leaves it
\* as it was when it was set, so a second in_progress keeps the first stamp.
C14_StartDateOnlyIfUnset ==
  [][\A i \in 1..Len(app.activities) :
       HandleStatusUpdate(app.activities[i], "in_progress") =>
         /\ app'.activities[i].status = "in_progress"
         /\ app.activities[i].actual_start_date = None =>
               app'.activities[i].actual_start_date = Some(now)
         /\ app.activities[i].actual_start_date # None =>
               app'.activities[i].actual_start_date =
                 app.activities[i].actual_start_date]_vars

\* an activity put in_progress again after the helper stamped its start:
\* the earlier stamp is still there
C14_Witness ==
  \E i \in 1..Len(app.activities) :
    /\ app.activities[i].status = "in_progress"
    /\ app.activities[i].actual_start_date # None
    /\ app.activities[i].actual_start_date[1] >= 1
    /\ app.activities[i].updated_at > app.activities[i].actual_start_date[1]
    /\ app.activities[i].actual_end_date = None

\* C15: a change of status to completed or cancelled through
\* handleStatusUpdate sets actual_end_date to the current time, whatever
\* actual_end_date held before.
C15_EndDateAlways ==
  [][\A i \in 1..Len(app.activities) :
       \A newStatus \in {"completed", "cancelled"} :
         HandleStatusUpdate(app.activities[i], newStatus) =>
           /\ app'.activities[i].status = newStatus
           /\ app'.activities[i].actual_end_date = Some(now)]_vars

\* an activity loaded with an end date and then closed: the end date is
\* the time of the transition
C15_Witness ==
  \E i \in 1..Len(app.activities) :
    /\ activities[i].actual_end_date # None
    /\ app.activities[i].status \in {"completed", "cancelled"}
    /\ app.activities[i].actual_end_date # None
    /\ app.activities[i].actual_end_date[1] >= 1
    /\ app.activities[i].actual_end_date[1] = app.activities[i].updated_at

\* C16 as stated: a status transition changes no field of the activity
\* other than status and the actual date tied to the new status.
C16_TouchesStatusAndDateOnly ==
  [][\A i \in 1..Len(app.activities), newStatus \in Statuses :
       HandleStatusUpdate(app.activities[i], newStatus) =>
         \A f \in DOMAIN app.activities[i] \ TiedFields(newStatus) :
           app'.activities[i][f] = app.activities[i][f]]_vars

\* C16 amended: a status transition changes no field of the activity other
\* than status, the actual date tied to the new status and updated_at, and
\* changes no other activity.
C16_TouchesStatusDateAndUpdatedAt ==
  [][\A i \in 1..Len(app.activities), newStatus \in Statuses :
       HandleStatusUpdate(app.activities[i], newStatus) =>
         /\ \A f \in DOMAIN app.activities[i]
                      \ (TiedFields(newStatus) \cup {"updated_at"}) :
              app'.activities[i][f] = app.activities[i][f]
         /\ app'.activities[i].updated_at = now
         /\ Len(app'.activities) = Len(app.activities)
         /\ \A j \in 1..Len(app.activities) :
              j # i => app'.activities[j] = app.activities[j]]_vars

\* an activity with a recorded cost and a start date after it was closed
\* through the helper: both are still there
C16_Witness ==
  \E i \in 1..Len(app.activities) :
    /\ app.activities[i].updated_at >= 1
    /\ app.activities[i].status = "completed"
    /\ app.activities[i].actual_cost_crc = ToActivity(activities[i]).actual_cost_crc
    /\ app.activities[i].actual_cost_crc # None
    /\ app.activities[i].actual_start_date = Some(0)

(* --------------------- claims on the activities ----------------------- *)

\* C17: every stored activity in status in_progress has an actual_start_date
\* and every stored activity in status completed or cancelled has an
\* actual_end_date.
C17_StatusImpliesDate ==
  \A i \in 1..Len(activities) :
    /\ activities[i].status = "in_progress" =>
          activities[i].actual_start_date # None
    /\ activities[i].status \in {"completed", "cancelled"} =>
          activities[i].actual_end_date # None

\* C18: the activity createActivity returns, and every stored activity no
\* update has touched since, is in status planned with actual_start_date,
\* actual_end_date and actual_cost_crc null.
C18_CreatedPlanned ==
  LET AsCreated(a) ==
        /\ a.status = "planned"
        /\ a.actual_start_date = None
        /\ a.actual_end_date = None
        /\ a.actual_cost_crc = None
  IN  /\ resp = Response("createActivity", "ok") =>
            (activities # <<>> /\ AsCreated(activities[Len(activities)]))
      /\ \A i \in 1..Len(activities) :
            activities[i].updated_at = activities[i].created_at =>
              AsCreated(activities[i])

\* createActivity has just returned the activity it stored
C18_Witness ==
  /\ resp = Response("createActivity", "ok")
  /\ activities # <<>>
  /\ activities[Len(activities)].status = "planned"
  /\ activities[Len(activities)].updated_at =
       activities[Len(activities)].created_at

\* C19: createActivity with a valid input whose project_id references no
\* project fails with Not-Found and inserts nothing; every stored
\* activity's project_id references a stored project.
C19_ActivityNeedsProject ==
  [][ /\ \A projectId \in ProjectIds, planned \in PlannedInputs :
           (/\ resp'.op = "createActivity"
            /\ ~ProjectExists(projectId)
            /\ Positive(planned)
            /\ CreateActivity(projectId, planned)) =>
             (/\ resp' = Response("createActivity", "NotFound")
              /\ activities' = activities)
      /\ \A i \in 1..Len(activities') :
           activities'[i].project_id \in 1..Len(projects') ]_vars

\* createActivity answered Not-Found while a project and an activity of it
\* are stored
C19_Witness ==
  /\ resp = Response("createActivity", "NotFound")
  /\ activities # <<>>
  /\ \A i \in 1..Len(activities) : ProjectExists(activities[i].project_id)

\* the fields an update input carries
Provided(input) == {f \in DOMAIN input : input[f] # Undefined}

\* row id of rows is the only one that differs in rows2, and only in
\* the fields named in touched
OnlyTouched(rows, rows2, id, touched) ==
  /\ Len(rows2) = Len(rows)
  /\ \A j \in 1..Len(rows) :
       /\ j # id => rows2[j] = rows[j]
       /\ DOMAIN rows2[j] = DOMAIN rows[j]
       /\ \A f \in DOMAIN rows[j] \ touched : rows2[j][f] = rows[j][f]

\* C20: a successful updateActivity or updateProject changes, in the row
\* it names, only the fields its input carries and updated_at, which it
\* sets to the current time; it changes no other row of either table and
\* no history entry.
C20_UpdatesTouchOnlyInput ==
  [][ /\ \A id \in EditIds, input \in EditActivityInputs :
           (/\ resp' = Response("updateActivity", "ok")
            /\ UpdateActivity(id, input)) =>
             (/\ OnlyTouched(activities, activities', id,
                             Provided(input) \cup {"updated_at"})
              /\ activities'[id].updated_at = now
              /\ projects' = projects
              /\ history' = history)
      /\ \A id \in EditIds, input \in EditProjectInputs :
           (/\ resp' = Response("updateProject", "ok")
            /\ UpdateProject(id, input)) =>
             (/\ OnlyTouched(projects, projects', id,
                             Provided(input) \cup {"updated_at"})
              /\ projects'[id].updated_at = now
              /\ activities' = activities
              /\ history' = history) ]_vars

\* an activity renamed by an update that carried only the name: its other
\* fields and the other activity are as they were stored
C20_Witness ==
  /\ resp = Response("updateActivity", "ok")
  /\ Len(activities) >= 2
  /\ activities[1].name = "roof"
  /\ activities[1].updated_at >= 1
  /\ activities[1].status = "in_progress"
  /\ activities[1].actual_cost_crc # None
  /\ activities[1].contractor = Some("acme")
  /\ activities[2].updated_at = activities[2].created_at

\* C21: updateActivity or updateProject with a valid input and an id that
\* references no record fails with Not-Found and changes no stored row:
\* none is created, none is modified.
C21_UpdateMissingChangesNothing ==
  [][ /\ \A id \in EditIds, input \in EditActivityInputs :
           (/\ ~ActivityExists(id)
            /\ UpdateActivity(id, input)) =>
             (/\ resp' = Response("updateActivity", "NotFound")
              /\ UNCHANGED <<projects, activities, history>>)
      /\ \A id \in EditIds, input \in EditProjectInputs :
           (/\ ~ProjectExists(id)
            /\ UpdateProject(id, input)) =>
             (/\ resp' = Response("updateProject", "NotFound")
              /\ UNCHANGED <<projects, activities, history>>) ]_vars

\* an update of a missing project answered Not-Found with the stored rows
\* as they were
C21_Witness ==
  /\ resp = Response("updateProject", "NotFound")
  /\ Len(projects) = EditRows
  /\ Len(activities) = EditRows
  /\ \A i \in 1..Len(projects) : projects[i].updated_at = projects[i].created_at
  /\ \A i \in 1..Len(activities) :
       activities[i].updated_at = activities[i].created_at

(* ------------------------- claims on the reads ------------------------ *)

\* C22 as stated: getProjectById for an id that references no existing
\* project answers with a Not-Found error, not with null.
C22_MissingProjectNotFound ==
  [][\A id \in ReadIds :
       (~ProjectExists(id) /\ GetProjectById(id)) =>
         (resp'.outcome = "NotFound" /\ result' # Some(None))]_vars

\* C22 amended: getProjectById for an id that references no existing
\* project returns null and raises no error; for an existing id it
\* returns that project.
C22_MissingProjectNull ==
  [][\A id \in ReadIds :
       GetProjectById(id) =>
         /\ resp'.outcome = "ok"
         /\ (~ProjectExists(id) => result' = Some(None))
         /\ (ProjectExists(id) =>
               /\ result' # Some(None)
               /\ result'[1][1].id = id)]_vars

C22_Witness ==
  /\ resp = Response("getProjectById", "ok")
  /\ result = Some(None)
  /\ Len(projects) > 0

\* ids of the rows of a table that belong to a project
IdsOfProject(rows, projectId) ==
  {rows[i].id : i \in {k \in 1..Len(rows) : rows[k].project_id = projectId}}

\* a returned list holds exactly the rows of a table that belong to the
\* project, each once
ExactlyOfProject(list, rows, projectId) ==
  /\ \A i \in 1..Len(list) : list[i].project_id = projectId
  /\ {list[i].id : i \in 1..Len(list)} = IdsOfProject(rows, projectId)
  /\ Len(list) = Cardinality(IdsOfProject(rows, projectId))

\* C23: getActivities(p) and getExchangeRateHistory(p) return exactly the
\* stored records whose project_id is p, never another project's, and for
\* a p that references no project they return the empty list, not an error.
C23_ListsScopedToProject ==
  [][\A p \in ReadIds :
       /\ GetActivitiesQuery(p) =>
            /\ resp'.outcome = "ok"
            /\ ExactlyOfProject(result'[1], activities, p)
            /\ (~ProjectExists(p) => result' = Some(<<>>))
       /\ GetExchangeRateHistory(p) =>
            /\ resp'.outcome = "ok"
            /\ ExactlyOfProject(result'[1], history, p)
            /\ (~ProjectExists(p) => result' = Some(<<>>))]_vars

C23_Witness ==
  /\ resp = Response("getExchangeRateHistory", "ok")
  /\ Len(history) = 2
  /\ history[1].project_id # history[2].project_id
  /\ Len(activities) = 2
  /\ activities[1].project_id # activities[2].project_id
  /\ result # None
  /\ Len(result[1]) = 1

(* -------------------- claims on the stored projects ------------------- *)

\* C24: in every state reachable through createProject, updateProject and
\* updateExchangeRate, every stored project has total_budget_usd > 0 and
\* current_exchange_rate > 0 (a request with a non-positive budget or rate
\* is rejected before anything is persisted).
C24_StoredBudgetAndRatePositive ==
  \A id \in 1..Len(projects) :
    /\ projects[id].total_budget_usd > 0
    /\ projects[id].current_exchange_rate > 0

(* -------------------- claims on the rate history ---------------------- *)

\* C25: the exchange-rate history is append-only: no operation modifies or
\* removes an existing entry, so across every step the entries stored so
\* far stay as they are, each keeping its rate, project_id and
\* effective_date, and the entries of each project only grow.
C25_HistoryAppendOnly ==
  [][/\ Len(history') >= Len(history)
     /\ \A i \in 1..Len(history) :
          /\ history'[i].id = history[i].id
          /\ history'[i].usd_to_crc_rate = history[i].usd_to_crc_rate
          /\ history'[i].project_id = history[i].project_id
          /\ history'[i].effective_date = history[i].effective_date]_vars

C25_Witness ==
  /\ Len(history) = 2
  /\ history[1].usd_to_crc_rate # history[2].usd_to_crc_rate
  /\ history[1].effective_date # history[2].effective_date

(* ---------------------- claims on the failures ------------------------ *)

\* C26: no error is silently absorbed: a failed server operation reaches
\* the caller with its kind, and the client does not replace a failed
\* result with fabricated data: after a load that failed, the client holds
\* no analysis and no activities other than those it held before (or none).
C26_NoErrorAbsorbed ==
  [][\A projectId \in ReadIds, failed \in LoadQueries :
       LoadProjectData(projectId, failed) =>
         /\ resp'.outcome \in {"NotFound", "Validation", "DbError"}
         /\ app'.budgetAnalysis \in {None, app.budgetAnalysis}
         /\ app'.activities \in {<<>>, app.activities}]_vars

\* C27: updateActivity applies whatever status the input carries whatever
\* the activity's current status is: the call on a stored activity
\* succeeds and leaves it in the input's status, also out of completed and
\* out of cancelled.
C27_AnyStatusFollowsAny ==
  [][\A id \in EditIds, input \in StatusChanges :
       (ActivityExists(id) /\ UpdateActivity(id, input)) =>
         /\ resp'.outcome = "ok"
         /\ activities'[id].status = input.status[1]]_vars

C27_Witness ==
  \E id \in 1..Len(activities) :
    /\ resp = Response("updateActivity", "ok")
    /\ activities[id].status \in {"planned", "in_progress"}
    /\ activities[id].actual_end_date # None
    /\ activities[id].updated_at >= 1

(* ------------------ claims on the client's analysis ------------------- *)

\* the stored form of an activity the client holds: what the calculator
\* of the server reads
AsStored(act) ==
  [act EXCEPT
     !.planned_budget_usd = ToNumeric(@, 2),
     !.actual_cost_crc = IF @ # None THEN Some(ToNumeric(@[1], 2)) ELSE None]

\* getBudgetAnalysis for the selected project over the activity list the
\* client holds
ServerAnalysis ==
  BudgetAnalysis(app.selectedProject[1].id,
                 projects[app.selectedProject[1].id],
                 [i \in 1..Len(app.activities) |->
                    AsStored(app.activities[i])])

C29_ProjectedAtLeastActual ==
  analysis # None =>
    ~RLt(analysis[1].projected_total_cost_usd,
         analysis[1].total_actual_cost_usd)

\* C29 amended: the projected_total_cost_usd returned by getBudgetAnalysis
\* is never less than total_actual_cost_usd, except when no activity is
\* completed and total_actual_cost_usd exceeds a positive
\* total_planned_budget_usd: then it is the planned total.
C29_ProjectedAtLeastActualOrPlanned ==
  analysis # None =>
    LET a == analysis[1]
        overspentUnfinished ==
          /\ a.project_completion_percentage = Num(0)
          /\ RGt(a.total_planned_budget_usd, Num(0))
          /\ RGt(a.total_actual_cost_usd, a.total_planned_budget_usd)
    IN  IF overspentUnfinished
        THEN a.projected_total_cost_usd = a.total_planned_budget_usd
        ELSE ~RLt(a.projected_total_cost_usd, a.total_actual_cost_usd)

C29_Witness ==
  /\ analysis # None
  /\ RGt(analysis[1].project_completion_percentage, Num(0))
  /\ RGt(analysis[1].total_planned_budget_usd, Num(0))
  /\ RGt(analysis[1].total_actual_cost_usd,
         analysis[1].total_planned_budget_usd)
  /\ RGt(analysis[1].projected_total_cost_usd,
         analysis[1].total_actual_cost_usd)

\* C30: in every state reachable through the API operations,
\* getBudgetAnalysis returns total_actual_cost_usd >= 0,
\* budget_utilization_percentage >= 0 and remaining_budget_usd <=
\* total_budget_usd: no accepted createActivity or updateActivity input
\* makes the recorded spend negative.
C30_SpendNeverNegative ==
  analysis # None =>
    /\ RLe(Num(0), analysis[1].total_actual_cost_usd)
    /\ RLe(Num(0), analysis[1].budget_utilization_percentage)
    /\ RLe(analysis[1].remaining_budget_usd, analysis[1].total_budget_usd)

====
